---------------------------- MODULE Spec2Model ----------------------------
(***************************************************************************)
(* LaneList search endpoint (app/api/search/route.ts): the search-and-     *)
(* fallback pipeline.  A request is parsed, the carrier collection is      *)
(* queried, and when the query yields nothing or the database is           *)
(* unreachable the AI Suggestion Engine (aiFallback) runs its guardrails   *)
(* and up to three provider strategies before falling back to a stub.      *)
(*                                                                         *)
(* JSON values are modelled as tagged records [t |-> type, v |-> value];   *)
(* a JSON object's v is a function from its keys to JSON values, a JSON    *)
(* array's v is a sequence.                                                *)
(***************************************************************************)
EXTENDS Integers, Sequences, FiniteSets, TLC

(* ------------------------------ JSON values ---------------------------- *)
JStr(s) == [t |-> "string", v |-> s]
JNum(n) == [t |-> "number", v |-> n]
JBool(b) == [t |-> "boolean", v |-> b]
JNull == [t |-> "null"]
JArr(s) == [t |-> "array", v |-> s]
JObj(f) == [t |-> "object", v |-> f]

\* The keys of a JSON object / the object restricted to a set of keys.
Keys(o) == DOMAIN o.v
Has(o, k) == k \in DOMAIN o.v
Restrict(f, S) == [k \in (DOMAIN f) \cap S |-> f[k]]
\* Object spread {...f, ...g}: g's keys win.
Spread(f, g) == [k \in (DOMAIN f) \cup (DOMAIN g) |-> IF k \in DOMAIN g THEN g[k] ELSE f[k]]

\* JavaScript truthiness of a JSON value (Boolean(x), `if (x)`, `x || d`).
Truthy(j) ==
    CASE j.t = "string" -> j.v # ""
      [] j.t = "number" -> j.v # 0
      [] j.t = "boolean" -> j.v
      [] j.t = "null" -> FALSE
      [] OTHER -> TRUE

\* A destructured property: undefined (modelled as absent) when the key is missing.
Undefined == [t |-> "undefined"]
Prop(f, k) == IF k \in DOMAIN f THEN f[k] ELSE Undefined
IsTruthy(j) == j.t # "undefined" /\ Truthy(j)

(* ------------------------ provider text and parsing -------------------- *)
\* A provider text is described by the features the code's sanitizer and
\* JSON.parse look at: whether it is wrapped in a ``` fence, what follows the
\* last closing brace of the JSON document ("none", "plain": text without a
\* brace or bracket, "brace": text that itself contains a closing brace), and
\* the document itself (a JSON value, or Garbage when it is no JSON at all).
Garbage == [t |-> "garbage"]
EmptyText == [empty |-> TRUE]
Text(fence, tail, doc) == [empty |-> FALSE, fence |-> fence, tail |-> tail, doc |-> doc]

\* sanitizeJsonString: strip the code fences, cut after the last '}' or ']'.
sanitizeJsonString(s) ==
    IF s.empty THEN s
    ELSE IF s.doc.t \in {"object", "array"}
         THEN \* the document ends in a brace: cut > 0 unless tail has a later one
              Text(FALSE, IF s.tail = "brace" THEN "brace" ELSE "none", s.doc)
         ELSE IF s.tail = "brace"
              THEN Text(FALSE, "brace", s.doc)
              ELSE \* no brace at all: lastIndexOf = -1, nothing is cut
                   Text(FALSE, s.tail, s.doc)

\* JSON.parse: succeeds only on exactly one JSON document.
ParseOk(s) == ~s.empty /\ ~s.fence /\ s.tail = "none" /\ s.doc.t # "garbage"
JSONparse(s) == s.doc

(* ------------------------- AJV schema & validator ----------------------- *)
TransportTypes == {"truck", "reefer", "container", "flatbed", "tanker"}
LaneProps == {"origin", "destination"}
ItemRequired == {"id", "name", "types", "lanes"}
ItemProps == ItemRequired \cup {"description", "logoEmoji"}

IsString(j) == j.t = "string"
IsNullableString(j) == j.t \in {"string", "null"}

ValidLane(j) ==
    /\ j.t = "object"
    /\ LaneProps \subseteq Keys(j)
    /\ IsString(j.v.origin)
    /\ IsString(j.v.destination)

ValidTypes(j) ==
    /\ j.t = "array"
    /\ \A i \in 1..Len(j.v) : IsString(j.v[i]) /\ j.v[i].v \in TransportTypes

ValidLanes(j) ==
    /\ j.t = "array"
    /\ \A i \in 1..Len(j.v) : ValidLane(j.v[i])

ValidItem(j) ==
    /\ j.t = "object"
    /\ ItemRequired \subseteq Keys(j)
    /\ IsString(j.v.id)
    /\ IsString(j.v.name)
    /\ ValidTypes(j.v.types)
    /\ ValidLanes(j.v.lanes)
    /\ (Has(j, "description") => IsNullableString(j.v.description))
    /\ (Has(j, "logoEmoji") => IsNullableString(j.v.logoEmoji))

\* validateCarriers(parsed): the boolean result.
validateCarriers(j) ==
    /\ j.t = "object"
    /\ Has(j, "items")
    /\ j.v.items.t = "array"
    /\ \A i \in 1..Len(j.v.items.v) : ValidItem(j.v.items.v[i])

\* removeAdditional: "all" -- what validation leaves of a valid payload.
\* StripLane_Keep is the faulty variant that leaves a lane as it came.
StripLane_Keep(j) == j
StripLane(j) == JObj(Restrict(j.v, LaneProps))
\* Faulty variant of StripItem: the item is kept as the provider sent it.
StripItem_Keep(j) == j

StripItem(j) ==
    JObj([k \in Keys(j) \cap ItemProps |->
            IF k = "lanes"
            THEN JArr([i \in 1..Len(j.v.lanes.v) |-> StripLane(j.v.lanes.v[i])])
            ELSE j.v[k]])
StripCarriers(j) ==
    JObj([k \in {"items"} |->
            JArr([i \in 1..Len(j.v.items.v) |-> StripItem(j.v.items.v[i])])])

(* ------------------------------- stub ---------------------------------- *)
\* confidence 0.55, in hundredths
AiConfidence == 55

\* Faulty variant of stubSuggestion: the type of the filter is not echoed.
stubSuggestion_FixedType(params, t) ==
    LET origin == Prop(params, "origin")
        destination == Prop(params, "destination")
    IN << [ id |-> JStr("ai-stub-" \o ToString(t)),
            name |-> JStr("Regional Carrier Suggestion"),
            verified |-> JBool(FALSE),
            types |-> JArr(<<JStr("truck")>>),
            lanes |-> JArr(<< JObj([origin |-> IF IsTruthy(origin) THEN origin ELSE JStr("FR"),
                                    destination |-> IF IsTruthy(destination) THEN destination
                                                    ELSE JStr("ES")]) >>),
            description |-> JStr("Unverified suggestion based on similar lanes in the region."),
            logoEmoji |-> JStr("compass"),
            source |-> JStr("ai"),
            confidence |-> JNum(AiConfidence) ] >>

stubSuggestion(params, t) ==
    LET type == Prop(params, "type")
        origin == Prop(params, "origin")
        destination == Prop(params, "destination")
    IN << [ id |-> JStr("ai-stub-" \o ToString(t)),
            name |-> JStr("Regional Carrier Suggestion"),
            verified |-> JBool(FALSE),
            types |-> JArr(IF IsTruthy(type) THEN <<type>> ELSE <<JStr("truck")>>),
            lanes |-> JArr(<< JObj([origin |-> IF IsTruthy(origin) THEN origin ELSE JStr("FR"),
                                    destination |-> IF IsTruthy(destination) THEN destination
                                                    ELSE JStr("ES")]) >>),
            description |-> JStr("Unverified suggestion based on similar lanes in the region."),
            logoEmoji |-> JStr("compass"),
            source |-> JStr("ai"),
            confidence |-> JNum(AiConfidence) ] >>

(* ------------------- in-memory rate limit for AI calls ------------------ *)
aiWindowMs == 60000
aiMaxCalls == 20

\* Faulty variant of WindowElapsed: the window lasts half as long.
WindowElapsed_HalfWindow(b, t) == 2 * (t - b.since) > aiWindowMs
\* Faulty variant of WindowElapsed: the window ends one millisecond early.
WindowElapsed_Inclusive(b, t) == t - b.since >= aiWindowMs
WindowElapsed(b, t) == t - b.since > aiWindowMs
\* Faulty variant of WithinLimit: off by one.
WithinLimit_Exclusive(c) == c < aiMaxCalls
WithinLimit(c) == c <= aiMaxCalls

\* Faulty variant of NextBucket: a call beyond the limit is not counted.
NextBucket_SkipDenied(bk, key, t) ==
    LET b0 == IF key \in DOMAIN bk THEN bk[key] ELSE [count |-> 0, since |-> t]
        b1 == IF WindowElapsed(b0, t) THEN [count |-> 0, since |-> t] ELSE b0
    IN [b1 EXCEPT !.count = IF @ > aiMaxCalls THEN @ ELSE @ + 1]

\* The bucket allowAiCall stores for `key` when called at time t.
NextBucket(bk, key, t) ==
    LET b0 == IF key \in DOMAIN bk THEN bk[key] ELSE [count |-> 0, since |-> t]
        b1 == IF WindowElapsed(b0, t) THEN [count |-> 0, since |-> t] ELSE b0
    IN [b1 EXCEPT !.count = @ + 1]

\* allowAiCall(key): the map after the call and the boolean it returns.
allowAiCall(bk, key, t) ==
    LET b == NextBucket(bk, key, t)
    IN [bucket |-> [k \in (DOMAIN bk) \cup {key} |-> IF k = key THEN b ELSE bk[k]],
        ok |-> WithinLimit(b.count)]


(* --------------------------- provider strategies ------------------------ *)
\* items.slice(0, 5)
MaxItems == 5
Take(s, n) == IF Len(s) <= n THEN s ELSE SubSeq(s, 1, n)

AiMarks == [verified |-> JBool(FALSE), source |-> JStr("ai"), confidence |-> JNum(AiConfidence)]

\* Faulty variant of MapItems: the payload is taken as the provider sent it and
\* its own verified / source / confidence win over the marks.
MapItems_PayloadWins(payload) ==
    LET items == Take(payload.v.items.v, MaxItems)
    IN [i \in 1..Len(items) |-> Spread(AiMarks, items[i].v)]

\* items.slice(0, 5).map((x) => ({ ...x, verified: false, source: "ai", confidence: 0.55 }))
MapItems(payload) ==
    LET items == Take(StripCarriers(payload).v.items.v, MaxItems)
    IN [i \in 1..Len(items) |-> Spread(items[i].v, AiMarks)]

\* What a strategy's try/catch comes to: "items" (return mapped), "stub"
\* (return stub(why)) or "degrade" (the catch block logs and the next strategy
\* is tried).
Outcome(kind, items, why) == [kind |-> kind, items |-> items, why |-> why]
Degrade == Outcome("degrade", <<>>, "")
Stub(why) == Outcome("stub", <<>>, why)

\* Faulty variant of FromText: the `mapped.length > 0` test is missing, so a
\* valid payload without items is returned as the result.
FromText_KeepEmpty(text, onThrow, onInvalid, emptyWhy) ==
    IF ~ParseOk(text) THEN onThrow
    ELSE IF ~validateCarriers(JSONparse(text)) THEN onInvalid
    ELSE Outcome("items", MapItems(JSONparse(text)), "")

\* Faulty variant of FromText: a valid payload without items throws, like the
\* other failures of the try block.
FromText_EmptyThrows(text, onThrow, onInvalid, emptyWhy) ==
    IF ~ParseOk(text) THEN onThrow
    ELSE IF ~validateCarriers(JSONparse(text)) THEN onInvalid
    ELSE IF Len(MapItems(JSONparse(text))) > 0
         THEN Outcome("items", MapItems(JSONparse(text)), "")
         ELSE onThrow

\* parse + validate + map, shared by the three strategies: onThrow is what an
\* exception in the try block comes to, onInvalid what a failed validation does.
FromText(text, onThrow, onInvalid, emptyWhy) ==
    IF ~ParseOk(text) THEN onThrow
    ELSE IF ~validateCarriers(JSONparse(text)) THEN onInvalid
    ELSE IF Len(MapItems(JSONparse(text))) > 0
         THEN Outcome("items", MapItems(JSONparse(text)), "")
         ELSE Stub(emptyWhy)

\* message.content ?? '{"items":[]}'
DefaultContent == Text(FALSE, "none", JObj([items |-> JArr(<<>>)]))
ContentOf(reply) == IF reply.content.t = "null" THEN DefaultContent ELSE reply.content.v

\* 1) function calling: reply.kind is "throw" or "completion" with tool_calls.
FunctionCalls(reply) == SelectSeq(reply.tool_calls, LAMBDA tc : tc.type = "function")
ToolsOutcome(reply) ==
    IF reply.kind = "throw" THEN Degrade
    ELSE IF FunctionCalls(reply) = <<>> THEN Degrade
    ELSE IF Head(FunctionCalls(reply)).arguments.empty THEN Degrade
    ELSE FromText(Head(FunctionCalls(reply)).arguments, Degrade, Degrade,
                  "empty_model_output(tools)")

\* Faulty variant of JsonSchemaOutcome: a failed validation returns the stub,
\* as strategy 3 does.
JsonSchemaOutcome_InvalidStub(reply) ==
    IF reply.kind = "throw" THEN Degrade
    ELSE FromText(sanitizeJsonString(ContentOf(reply)), Degrade,
                  Stub("json_schema_validation_failed"), "empty_model_output(json_schema)")

\* 2) strict json_schema
JsonSchemaOutcome(reply) ==
    IF reply.kind = "throw" THEN Degrade
    ELSE FromText(sanitizeJsonString(ContentOf(reply)), Degrade, Degrade,
                  "empty_model_output(json_schema)")

\* 3) json_object: the catch block returns the stub itself
JsonObjectOutcome(reply) ==
    IF reply.kind = "throw" THEN Stub("json_object_call_failed")
    ELSE FromText(sanitizeJsonString(ContentOf(reply)), Stub("json_object_call_failed"),
                  Stub("json_object_validation_failed"), "empty_model_output(json_object)")

(* ------------------------------ guardrails ------------------------------ *)
MIN_FILTERS_FOR_AI == 2

\* Faulty variant of Filled: counts the fields that are present, empty or not.
Filled_Present(params) ==
    Cardinality({k \in {"type", "origin", "destination"} : k \in DOMAIN params})

\* [type, origin, destination].filter(Boolean).length
Filled(params) ==
    Cardinality({k \in {"type", "origin", "destination"} : IsTruthy(Prop(params, k))})

\* Faulty variant of Guardrails: the toggle is not consulted.
Guardrails_NoToggle(E, params, bk, key, t) ==
    IF Filled(params) < MIN_FILTERS_FOR_AI THEN [gate |-> "min_filters", bucket |-> bk]
    ELSE IF ~allowAiCall(bk, key, t).ok
         THEN [gate |-> "rate_limited", bucket |-> allowAiCall(bk, key, t).bucket]
    ELSE IF ~IsTruthy(E.OPENAI_API_KEY) THEN [gate |-> "no_key", bucket |-> allowAiCall(bk, key, t).bucket]
    ELSE [gate |-> "call", bucket |-> allowAiCall(bk, key, t).bucket]

\* Faulty variant of Guardrails: the credential is checked before the rate limiter.
Guardrails_KeyFirst(E, params, bk, key, t) ==
    IF E.AI_FALLBACK_ENABLED # JStr("true") THEN [gate |-> "ai_disabled", bucket |-> bk]
    ELSE IF Filled(params) < MIN_FILTERS_FOR_AI THEN [gate |-> "min_filters", bucket |-> bk]
    ELSE IF ~IsTruthy(E.OPENAI_API_KEY) THEN [gate |-> "no_key", bucket |-> bk]
    ELSE IF ~allowAiCall(bk, key, t).ok
         THEN [gate |-> "rate_limited", bucket |-> allowAiCall(bk, key, t).bucket]
    ELSE [gate |-> "call", bucket |-> allowAiCall(bk, key, t).bucket]

\* The four gates of aiFallback, in order.  "call": the provider is called.
\* bucket is the rate map as the gates leave it.
Guardrails(E, params, bk, key, t) ==
    IF E.AI_FALLBACK_ENABLED # JStr("true") THEN [gate |-> "ai_disabled", bucket |-> bk]
    ELSE IF Filled(params) < MIN_FILTERS_FOR_AI THEN [gate |-> "min_filters", bucket |-> bk]
    ELSE IF ~allowAiCall(bk, key, t).ok
         THEN [gate |-> "rate_limited", bucket |-> allowAiCall(bk, key, t).bucket]
    ELSE IF ~IsTruthy(E.OPENAI_API_KEY) THEN [gate |-> "no_key", bucket |-> allowAiCall(bk, key, t).bucket]
    ELSE [gate |-> "call", bucket |-> allowAiCall(bk, key, t).bucket]

(* ------------------------------- database ------------------------------- *)
\* Carrier.find(q): q maps a subset of types / lanes.origin / lanes.destination
\* / verified to the value the document must match (MongoDB array semantics:
\* an array field matches when one of its elements does).
SomeElem(arr, P(_)) == \E i \in 1..Len(arr.v) : P(arr.v[i])

Matches(doc, q) ==
    /\ ("types" \in DOMAIN q => SomeElem(doc.types, LAMBDA x : x = q["types"]))
    /\ ("lanes.origin" \in DOMAIN q =>
            SomeElem(doc.lanes, LAMBDA l : l.v.origin = q["lanes.origin"]))
    /\ ("lanes.destination" \in DOMAIN q =>
            SomeElem(doc.lanes, LAMBDA l : l.v.destination = q["lanes.destination"]))
    /\ ("verified" \in DOMAIN q => doc.verified = q["verified"])

Find(coll, q) == SelectSeq(coll, LAMBDA d : Matches(d, q))

\* .limit(50)
QueryLimit == 50

\* Faulty variant of BuildQuery: every field present in the body constrains
\* the query, empty or not.
BuildQuery_Present(r) ==
    LET field == [k \in {"types", "lanes.origin", "lanes.destination", "verified"} |->
                    CASE k = "types" -> Prop(r, "type")
                      [] k = "lanes.origin" -> Prop(r, "origin")
                      [] k = "lanes.destination" -> Prop(r, "destination")
                      [] OTHER -> Prop(r, "verifiedOnly")]
    IN [k \in {k \in DOMAIN field : field[k] # Undefined} |->
            IF k = "verified" THEN JBool(TRUE) ELSE field[k]]

\* Build DB query from provided filters only
BuildQuery(r) ==
    LET field == [k \in {"types", "lanes.origin", "lanes.destination", "verified"} |->
                    CASE k = "types" -> Prop(r, "type")
                      [] k = "lanes.origin" -> Prop(r, "origin")
                      [] k = "lanes.destination" -> Prop(r, "destination")
                      [] OTHER -> Prop(r, "verifiedOnly")]
    IN [k \in {k \in DOMAIN field : IsTruthy(field[k])} |->
            IF k = "verified" THEN JBool(TRUE) ELSE field[k]]

\* carriers.map((c) => ({ id: c._id.toString(), ..., source: "db" })); a
\* property whose value is undefined is not serialised.  DbOut_Untagged is the
\* faulty variant that leaves the source tag out.
OutKeys == {"name", "types", "lanes", "description", "logoEmoji", "verified", "rating", "contact"}
DbOut_Untagged(c) ==
    Spread(Restrict(c, OutKeys), [id |-> JStr(c._id)])
DbOut(c) ==
    Spread(Restrict(c, OutKeys), [id |-> JStr(c._id), source |-> JStr("db")])
MapDocs(docs) == [i \in 1..Len(docs) |-> DbOut(docs[i])]

(* ------------------------------ environment ----------------------------- *)
\* const { OPENAI_API_KEY, AI_FALLBACK_ENABLED = "true" } = process.env
\* (destructured once, when the module is loaded).
LoadEnv(penv) ==
    [OPENAI_API_KEY |-> penv.OPENAI_API_KEY,
     AI_FALLBACK_ENABLED |-> IF penv.AI_FALLBACK_ENABLED.t = "undefined"
                             THEN JStr("true") ELSE penv.AI_FALLBACK_ENABLED]

\* ip = x-forwarded-for?.split(",")[0]?.trim() || cf-connecting-ip || "local".
\* A header is Undefined or present; x-forwarded-for is given as its
\* comma-separated entries, each an address with or without blanks around it.
Entry(pad, addr) == [pad |-> pad, addr |-> addr]
trim(e) == JStr(e.addr)
RateKey(h) ==
    LET xff == IF h.xff.t = "undefined" THEN Undefined ELSE trim(Head(h.xff.v))
    IN IF IsTruthy(xff) THEN xff.v
       ELSE IF IsTruthy(h.cf) THEN h.cf.v
       ELSE "local"

(* --------------------------------- state -------------------------------- *)
VARIABLES
    now,        \* Date.now()
    ticks,      \* clock advances so far
    processEnv, \* process.env
    ENV,        \* the module-level constants destructured from process.env
    cached,     \* globalThis._mongoose: conn and promise
    db,         \* the seed of the carriers collection
    aiBucket,   \* Map key -> {count, since}
    pc,         \* where the request in flight is suspended
    req,        \* the destructured body and the rate key of the request in flight
    notice,     \* the notice of the fallback in progress
    calls,      \* provider calls made for the request in flight, in order
    replies,    \* what the provider answered to each of them
    resp,       \* the handler's result
    query,      \* the query built for the request in flight
    found,      \* what the query came to: nothing yet, an exception, or documents
    reason,     \* the reason logged by stub(reason), "" when no stub was returned
    allowed,    \* the last call of allowAiCall: key, time, bucket before, result
    attempts,   \* contact route: Map ip -> {count, ts}
    mail,       \* contact route: the last request's outcome and the mails sent
    grants,     \* times of the allowAiCall calls that returned true, per time
    parsed,     \* validator: the payload handed to validateCarriers
    validated,  \* validator: its verdict and what it left of the payload
    flight,     \* concurrent requests: how many are suspended at each await
    tally,      \* concurrent requests: connection attempts and limiter calls so far
    filters,    \* search page: selectedType, origin, destination, showVerifiedOnly
    effects,    \* search page: the runs of the fetch effect, the last one current
    shown,      \* search page: results, usedAi and notice as displayed
    loading,    \* search page: the loading flag
    error,      \* search page: the error text
    cacheRef,   \* search page: Map key -> {results, usedAi, notice}
    moves       \* search page: filter changes made so far

\* The state outside the search route.
\* The state of the concurrent requests and of the search page.
beside == <<flight, tally, filters, effects, shown, loading, error, cacheRef, moves>>
aside == <<attempts, mail, grants, parsed, validated, flight, tally, filters, effects, shown,
           loading, error, cacheRef, moves>>

vars == <<now, ticks, processEnv, ENV, cached, db, aiBucket, pc, req, notice, calls,
          replies, resp, query, found, reason,
          allowed, attempts, mail, grants, parsed, validated, flight, tally, filters,
          effects, shown, loading, error, cacheRef, moves>>

(* ------------------------------ sample data ----------------------------- *)
Lane(o, d) == JObj([origin |-> JStr(o), destination |-> JStr(d)])

\* Carrier documents (lean): _id, name, verified, types, lanes and optional fields.
Doc(id, name, verified, types, lanes) ==
    [_id |-> id, name |-> JStr(name), verified |-> JBool(verified),
     types |-> JArr(types), lanes |-> JArr(lanes)]

Alpine ==
    Spread(Doc("1", "Alpine Logistics", TRUE, <<JStr("truck")>>, <<Lane("FR", "DE")>>),
           [description |-> JStr("test"), logoEmoji |-> JStr("mountain"),
            rating |-> JNum(5), contact |-> JObj([email |-> JStr("ops@alpine.example")])])
Iberia == Doc("2", "Iberia Cold Chain", FALSE, <<JStr("reefer"), JStr("truck")>>,
              <<Lane("FR", "ES"), Lane("IT", "DE")>>)
Bulk(i) == Doc("b" \o ToString(i), "Benelux Box", FALSE, <<JStr("container")>>,
               <<Lane("NL", "BE")>>)

\* More documents than one query returns.
BulkDocs == QueryLimit + 1
\* The collection never changes on the search path; the state names its seed.
Collection(seed) ==
    IF seed = "seeded" THEN <<Alpine, Iberia>> \o [i \in 1..BulkDocs |-> Bulk(i)] ELSE <<>>

\* Request bodies: not JSON, null, and filter objects.
Body(f) == JObj(f)
BodySamples ==
    { Garbage, JNull,
      Body(<<>>),
      Body([type |-> JStr("truck")]),
      Body([type |-> JStr(""), origin |-> JStr("FR")]),
      Body([type |-> JStr("tanker"), verifiedOnly |-> JBool(TRUE)]),
      Body([origin |-> JStr("FR"), destination |-> JStr("DE")]),
      Body([type |-> JStr("truck"), origin |-> JStr("FR"), destination |-> JStr("DE")]),
      Body([type |-> JStr("tanker"), origin |-> JStr("FR"), destination |-> JStr("DE"),
            verifiedOnly |-> JBool(FALSE)]) }

NoHeaders == [xff |-> Undefined, cf |-> Undefined]
HeaderSamples ==
    { NoHeaders,
      [xff |-> JArr(<<Entry(TRUE, "")>>), cf |-> Undefined] }

\* Provider payloads.
ItemA == JObj([id |-> JStr("ai-1"), name |-> JStr("Euro Freight"),
               types |-> JArr(<<JStr("truck")>>), lanes |-> JArr(<<Lane("FR", "DE")>>)])
ItemRich ==
    JObj([id |-> JStr("ai-2"), name |-> JStr("Rhine Haulage"),
          types |-> JArr(<<JStr("reefer"), JStr("tanker")>>),
          lanes |-> JArr(<<JObj([origin |-> JStr("FR"), destination |-> JStr("DE"),
                                 via |-> JStr("LU")])>>),
          description |-> JNull, logoEmoji |-> JStr("truck"),
          verified |-> JBool(TRUE), source |-> JStr("db"), confidence |-> JNum(99),
          rating |-> JNum(5), contact |-> JObj([email |-> JStr("sales@rhine.example")])])
ItemNoLanes == JObj([id |-> JStr("ai-3"), name |-> JStr("No Lanes"),
                     types |-> JArr(<<JStr("truck")>>)])
Numbered(i) == JObj([id |-> JStr("ai-n" \o ToString(i)), name |-> JStr("Carrier"),
                     types |-> JArr(<<JStr("flatbed")>>), lanes |-> JArr(<<>>)])

Payload(items) == JObj([items |-> JArr(items)])
PEmpty == Payload(<<>>)
POne == Payload(<<ItemA>>)
PRich == JObj([items |-> JArr(<<ItemRich, ItemA>>), note |-> JStr("extra")])
PMany == Payload([i \in 1..(MaxItems + 1) |-> Numbered(i)])
PNoLanes == Payload(<<ItemA, ItemNoLanes>>)

Plain(doc) == Text(FALSE, "none", doc)
Throw == [kind |-> "throw"]
ToolCalls(tcs) == [kind |-> "completion", tool_calls |-> tcs]
Fn(args) == [type |-> "function", arguments |-> args]
Content(c) == [kind |-> "completion", content |-> c]

ToolsReplies ==
    { Throw,
      ToolCalls(<<>>),
      ToolCalls(<<[type |-> "custom", arguments |-> EmptyText]>>),
      ToolCalls(<<Fn(EmptyText)>>),
      ToolCalls(<<Fn(Text(TRUE, "none", POne))>>),
      ToolCalls(<<Fn(Plain(PNoLanes))>>),
      ToolCalls(<<Fn(Plain(PEmpty))>>),
      ToolCalls(<<[type |-> "custom", arguments |-> EmptyText], Fn(Plain(PRich))>>),
      ToolCalls(<<Fn(Plain(PMany))>> ) }

ContentReplies ==
    { Throw,
      Content(JNull),
      Content(JStr(Plain(Garbage))),
      Content(JStr(Text(FALSE, "brace", POne))),
      Content(JStr(Plain(JNull))),
      Content(JStr(Plain(PNoLanes))),
      Content(JStr(Plain(PEmpty))),
      Content(JStr(Text(TRUE, "plain", POne))),
      Content(JStr(Plain(PRich))) }

(* -------------------------------- bounds -------------------------------- *)
\* The clock advances at most MaxTicks times (MaxRateTicks when only the rate
\* limiter runs); no bucket counts beyond MaxCount.
MaxTicks == 1
MaxRateTicks == 2
MaxCount == 22
\* A payload is edited at most MaxEdits times before it is validated.
MaxEdits == 2
\* On the contact route the clock advances at most MaxContactTicks times, and
\* the search limiter is called at most MaxSearchCalls times per key beside it.
MaxContactTicks == 2
MaxSearchCalls == 1
\* When the granted calls are logged the clock advances at most MaxBurstTicks times.
MaxBurstTicks == 2

(* ------------------------------- responses ------------------------------ *)
NoResponse == [status |-> "none"]
Threw == [status |-> "threw"]
Json(body) == [status |-> "json", body |-> body]

DbResponse(out) == [carriers |-> out, usedAi |-> FALSE]
\* AiResponse_InCarriers is the faulty variant that puts the suggestions in carriers.
AiResponse_InCarriers(suggestions, n) ==
    [carriers |-> suggestions, suggestions |-> <<>>, usedAi |-> TRUE, notice |-> n]
AiResponse(suggestions, n) ==
    [carriers |-> <<>>, suggestions |-> suggestions, usedAi |-> TRUE, notice |-> n]

NoticeUnavailable == "Database unavailable. Showing unverified AI suggestions."
NoticeNoneFound ==
    "No verified carriers found for these filters. Showing unverified AI suggestions."
NoticeQueryError ==
    "We hit an error querying the database. Showing unverified AI suggestions."

NoReq == [params |-> <<>>, rateKey |-> ""]
NoQuery == [built |-> FALSE]
NotFound == [status |-> "none"]
QueryThrew == [status |-> "threw"]
Docs(docs) == [status |-> "docs", docs |-> docs]
NoCall == [key |-> "", at |-> 0, called |-> FALSE]
NoMail == [key |-> "", answer |-> [status |-> 0, ok |-> FALSE, read |-> FALSE, smtp |-> "none"]]
NoPayload == [edits |-> <<>>]
NotValidated == [done |-> FALSE]

\* The awaits of a search request, and no request suspended at any of them.
Stages == {"body", "connect", "query", "tools", "json_schema", "json_object"}
NoFlight == [s \in Stages |-> 0]
NoTally == [connects |-> 0, limited |-> 0, passed |-> 0]

\* The search page before it is mounted: useState("") x 3, useState(false),
\* useState([]), an empty cache, no effect run yet.
NoFilters == [selectedType |-> "", origin |-> "", destination |-> "", showVerifiedOnly |-> FALSE]
NothingShown == [results |-> <<>>, usedAi |-> FALSE, notice |-> ""]
Unmounted ==
    /\ filters = NoFilters
    /\ effects = <<>>
    /\ shown = NothingShown
    /\ loading = FALSE
    /\ error = ""
    /\ cacheRef = <<>>
    /\ moves = 0

\* Neither concurrent requests nor a page.
Quiet ==
    /\ flight = NoFlight
    /\ tally = NoTally
    /\ Unmounted

(* ------------------------------- dbConnect ------------------------------ *)
\* Faulty variant of DbConnectStart: a failed attempt is forgotten and the
\* next caller connects again.
DbConnectStart_Retry(c, penv) ==
    IF c.conn THEN c
    ELSE IF ~IsTruthy(penv.MONGODB_URI) THEN c
    ELSE IF c.promise \in {"none", "rejected"} THEN [c EXCEPT !.promise = "pending"]
    ELSE c

\* dbConnect up to its await: a cached connection or a missing URI start
\* nothing; otherwise the first caller starts the one connection attempt.
DbConnectStart(c, penv) ==
    IF c.conn THEN c
    ELSE IF ~IsTruthy(penv.MONGODB_URI) THEN c
    ELSE IF c.promise = "none" THEN [c EXCEPT !.promise = "pending"]
    ELSE c

\* dbConnect after its await: whether it resolves, given how a pending attempt
\* settles (up), and the cache it leaves.
DbConnectResolves(c, penv, up) ==
    \/ c.conn
    \/ IsTruthy(penv.MONGODB_URI) /\ (c.promise = "resolved" \/ (c.promise = "pending" /\ up))

DbConnectEnd(c, penv, up) ==
    IF c.conn \/ ~IsTruthy(penv.MONGODB_URI) THEN c
    ELSE IF c.promise = "pending"
         THEN IF up THEN [conn |-> TRUE, promise |-> "resolved"]
                    ELSE [conn |-> FALSE, promise |-> "rejected"]
    ELSE IF c.promise = "resolved" THEN [c EXCEPT !.conn = TRUE]
    ELSE c

(* -------------------------------- actions ------------------------------- *)
\* Time passes: the clock advances by d, at most `limit` times.
Advance(d, limit) ==
    /\ ticks < limit
    /\ now' = now + d
    /\ ticks' = ticks + 1
    /\ UNCHANGED <<processEnv, ENV, cached, db, aiBucket, pc, req, notice, calls, replies,
                   resp, query, found, reason, allowed>>
    /\ UNCHANGED aside

\* What is recorded of a call allowAiCall(key) made at time t on the map bk.
CallRecord(bk, key, t) ==
    [key |-> key, at |-> t, called |-> TRUE,
     ok |-> allowAiCall(bk, key, t).ok,
     fresh |-> key \notin DOMAIN bk,
     before |-> IF key \in DOMAIN bk THEN bk[key] ELSE [count |-> 0, since |-> t]]

\* return NextResponse.json(...) / return stub(reason) inside aiFallback
Respond(body, why) ==
    /\ pc' = "done"
    /\ resp' = Json(body)
    /\ reason' = why

\* Faulty variant of AiFallbackStart: the first two provider calls are issued
\* together.
AiFallbackStart_Parallel(n) ==
    LET g == Guardrails(ENV, req.params, aiBucket, req.rateKey, now)
    IN /\ aiBucket' = g.bucket
       /\ allowed' = IF g.gate \in {"ai_disabled", "min_filters"} THEN allowed
                     ELSE CallRecord(aiBucket, req.rateKey, now)
       /\ notice' = n
       /\ IF g.gate = "call"
          THEN /\ pc' = "tools"
               /\ calls' = calls \o <<"tools", "json_schema">>
               /\ UNCHANGED <<resp, reason>>
          ELSE /\ Respond(AiResponse(stubSuggestion(req.params, now), n), g.gate)
               /\ UNCHANGED calls

\* aiFallback(params, rateKey) up to its first await, called with notice n
\* pending: the guardrails, and the first provider call when they all pass.
AiFallbackStart(n) ==
    LET g == Guardrails(ENV, req.params, aiBucket, req.rateKey, now)
    IN /\ aiBucket' = g.bucket
       /\ allowed' = IF g.gate \in {"ai_disabled", "min_filters"} THEN allowed
                     ELSE CallRecord(aiBucket, req.rateKey, now)
       /\ notice' = n
       /\ IF g.gate = "call"
          THEN /\ pc' = "tools"
               /\ calls' = Append(calls, "tools")
               /\ UNCHANGED <<resp, reason>>
          ELSE /\ Respond(AiResponse(stubSuggestion(req.params, now), n), g.gate)
               /\ UNCHANGED calls

\* POST: await req.json(), derive the rate key, call dbConnect().
Post(body, h) ==
    /\ pc \in {"idle", "done"}
    /\ \A k \in DOMAIN aiBucket : aiBucket[k].count < MaxCount
    /\ calls' = <<>>
    /\ replies' = <<>>
    /\ notice' = ""
    /\ reason' = ""
    /\ query' = NoQuery
    /\ found' = NotFound
    /\ allowed' = NoCall
    /\ IF body.t \in {"garbage", "null"}
       THEN \* req.json() rejects, or destructuring null throws
            /\ pc' = "done"
            /\ resp' = Threw
            /\ req' = NoReq
            /\ UNCHANGED cached
       ELSE /\ pc' = "connect"
            /\ resp' = NoResponse
            /\ req' = [params |-> IF body.t = "object"
                                  THEN Restrict(body.v, {"type", "origin", "destination",
                                                         "verifiedOnly"})
                                  ELSE <<>>,
                       rateKey |-> RateKey(h)]
            /\ cached' = DbConnectStart(cached, processEnv)
    /\ UNCHANGED <<now, ticks, processEnv, ENV, db, aiBucket>>
    /\ UNCHANGED aside

\* await dbConnect() settles: on failure the fallback runs with the
\* "Database unavailable" notice, otherwise the query is built and issued.
ConnectDone(up) ==
    /\ pc = "connect"
    /\ cached' = DbConnectEnd(cached, processEnv, up)
    /\ IF DbConnectResolves(cached, processEnv, up)
       THEN /\ pc' = "query"
            /\ query' = [built |-> TRUE, q |-> BuildQuery(req.params)]
            /\ UNCHANGED <<aiBucket, notice, calls, resp, reason, allowed>>
       ELSE /\ AiFallbackStart(NoticeUnavailable)
            /\ UNCHANGED query
    /\ UNCHANGED <<now, ticks, processEnv, ENV, db, req, replies, found>>
    /\ UNCHANGED aside

\* Faulty variant of QueryDone: one notice for an empty result and for an
\* exception alike.
QueryDone_OneNotice(ok) ==
    /\ pc = "query"
    /\ LET carriers == Take(Find(Collection(db), query.q), QueryLimit)
       IN /\ found' = IF ok THEN Docs(carriers) ELSE QueryThrew
          /\ IF ok /\ Len(carriers) > 0
             THEN /\ Respond(DbResponse(MapDocs(carriers)), "")
                  /\ UNCHANGED <<aiBucket, notice, calls, allowed>>
             ELSE AiFallbackStart(NoticeNoneFound)
    /\ UNCHANGED <<now, ticks, processEnv, ENV, cached, db, req, replies, query>>
    /\ UNCHANGED aside

\* Faulty variant of QueryDone: the fallback of an empty result is run again
\* by the catch block, so its guardrails are passed twice.
QueryDone_Twice(ok) ==
    /\ pc = "query"
    /\ LET carriers == Take(Find(Collection(db), query.q), QueryLimit)
           first == Guardrails(ENV, req.params, aiBucket, req.rateKey, now)
           g == Guardrails(ENV, req.params, first.bucket, req.rateKey, now)
       IN /\ found' = IF ok THEN Docs(carriers) ELSE QueryThrew
          /\ IF ok /\ Len(carriers) > 0
             THEN /\ Respond(DbResponse(MapDocs(carriers)), "")
                  /\ UNCHANGED <<aiBucket, notice, calls, allowed>>
             ELSE /\ aiBucket' = g.bucket
                  /\ allowed' = IF g.gate \in {"ai_disabled", "min_filters"} THEN allowed
                                ELSE CallRecord(first.bucket, req.rateKey, now)
                  /\ notice' = NoticeQueryError
                  /\ IF g.gate = "call"
                     THEN /\ pc' = "tools"
                          /\ calls' = Append(calls, "tools")
                          /\ UNCHANGED <<resp, reason>>
                     ELSE /\ Respond(AiResponse(stubSuggestion(req.params, now),
                                                NoticeQueryError), g.gate)
                          /\ UNCHANGED calls
    /\ UNCHANGED <<now, ticks, processEnv, ENV, cached, db, req, replies, query>>
    /\ UNCHANGED aside

\* await Carrier.find(q).limit(50).lean() settles.
QueryDone(ok) ==
    /\ pc = "query"
    /\ LET carriers == Take(Find(Collection(db), query.q), QueryLimit)
       IN /\ found' = IF ok THEN Docs(carriers) ELSE QueryThrew
          /\ IF ok /\ Len(carriers) > 0
             THEN /\ Respond(DbResponse(MapDocs(carriers)), "")
                  /\ UNCHANGED <<aiBucket, notice, calls, allowed>>
             ELSE AiFallbackStart(IF ok THEN NoticeNoneFound ELSE NoticeQueryError)
    /\ UNCHANGED <<now, ticks, processEnv, ENV, cached, db, req, replies, query>>
    /\ UNCHANGED aside

\* Faulty variant of StrategyDone: the mapped items are not returned, the next
\* strategy is tried regardless.
StrategyDone_NoReturn(reply, o, next) ==
    /\ replies' = Append(replies, reply)
    /\ IF o.kind = "stub"
       THEN /\ Respond(AiResponse(stubSuggestion(req.params, now), notice), o.why)
            /\ UNCHANGED calls
       ELSE /\ pc' = next
            /\ calls' = Append(calls, next)
            /\ UNCHANGED <<resp, reason>>
    /\ UNCHANGED <<now, ticks, processEnv, ENV, cached, db, aiBucket, req, notice, query,
                   found, allowed>>
    /\ UNCHANGED aside

\* A strategy's provider call settles with `reply`; o is what its try/catch
\* comes to; next is the strategy tried on "degrade".
StrategyDone(reply, o, next) ==
    /\ replies' = Append(replies, reply)
    /\ CASE o.kind = "items" ->
              /\ Respond(AiResponse(o.items, notice), "")
              /\ UNCHANGED calls
         [] o.kind = "stub" ->
              /\ Respond(AiResponse(stubSuggestion(req.params, now), notice), o.why)
              /\ UNCHANGED calls
         [] OTHER ->
              /\ pc' = next
              /\ calls' = Append(calls, next)
              /\ UNCHANGED <<resp, reason>>
    /\ UNCHANGED <<now, ticks, processEnv, ENV, cached, db, aiBucket, req, notice, query,
                   found, allowed>>
    /\ UNCHANGED aside

ToolsDone(reply) ==
    /\ pc = "tools"
    /\ StrategyDone(reply, ToolsOutcome(reply), "json_schema")

JsonSchemaDone(reply) ==
    /\ pc = "json_schema"
    /\ StrategyDone(reply, JsonSchemaOutcome(reply), "json_object")

\* The last strategy never degrades.
JsonObjectDone(reply) ==
    /\ pc = "json_object"
    /\ StrategyDone(reply, JsonObjectOutcome(reply), "json_object")

(* ----------------------------- specification ---------------------------- *)
\* Deployment configurations: process.env when the module is loaded.
Env(toggle, key, uri) ==
    [AI_FALLBACK_ENABLED |-> toggle, OPENAI_API_KEY |-> key, MONGODB_URI |-> uri]
\* Each with the collection it runs against.
Deployment(env, coll) == [env |-> env, db |-> coll]
Deployments ==
    { Deployment(Env(Undefined, JStr("sk-test"), JStr("mongodb://db")), "seeded"),
      Deployment(Env(JStr("true"), Undefined, JStr("mongodb://db")), "seeded"),
      Deployment(Env(JStr("true"), JStr(""), Undefined), "empty"),
      Deployment(Env(JStr("false"), JStr("sk-test"), JStr("mongodb://db")), "seeded"),
      Deployment(Env(JStr("false"), Undefined, JStr("mongodb://db")), "empty"),
      Deployment(Env(JStr("0"), JStr("sk-test"), Undefined), "seeded") }

\* Long enough for a window to elapse.
ClockSteps == {aiWindowMs + 1}

\* The state when the modules have been loaded, in one of the deployments deps.
Boot(deps) ==
    /\ now = 0
    /\ ticks = 0
    /\ \E dep \in deps : processEnv = dep.env /\ db = dep.db
    /\ ENV = LoadEnv(processEnv)
    /\ cached = [conn |-> FALSE, promise |-> "none"]
    /\ aiBucket = <<>>
    /\ pc = "idle"
    /\ req = NoReq
    /\ notice = ""
    /\ calls = <<>>
    /\ replies = <<>>
    /\ resp = NoResponse
    /\ query = NoQuery
    /\ found = NotFound
    /\ reason = ""
    /\ allowed = NoCall

Init ==
    /\ Boot(Deployments)
    /\ attempts = <<>>
    /\ mail = NoMail
    /\ grants = <<>>
    /\ parsed = NoPayload
    /\ validated = NotValidated
    /\ Quiet

Next ==
    \/ \E d \in ClockSteps : Advance(d, MaxTicks)
    \/ \E body \in BodySamples, h \in HeaderSamples : Post(body, h)
    \/ \E up \in BOOLEAN : ConnectDone(up)
    \/ \E ok \in BOOLEAN : QueryDone(ok)
    \/ \E reply \in ToolsReplies : ToolsDone(reply)
    \/ \E reply \in ContentReplies : JsonSchemaDone(reply)
    \/ \E reply \in ContentReplies : JsonObjectDone(reply)

Spec == Init /\ [][Next]_vars

(* ----------------------- the rate limiter on its own -------------------- *)
\* allowAiCall(key) called at the current time, for the key of a request
\* with headers h.
AllowAiCall(h) ==
    /\ \A k \in DOMAIN aiBucket : aiBucket[k].count < MaxCount
    /\ aiBucket' = allowAiCall(aiBucket, RateKey(h), now).bucket
    /\ allowed' = CallRecord(aiBucket, RateKey(h), now)
    /\ UNCHANGED <<now, ticks, processEnv, ENV, cached, db, pc, req, notice, calls, replies,
                   resp, query, found, reason>>
    /\ UNCHANGED aside

RateHeaderSamples ==
    { NoHeaders,
      [xff |-> JArr(<<Entry(TRUE, "1.2.3.4"), Entry(TRUE, "5.6.7.8")>>), cf |-> Undefined],
      [xff |-> JArr(<<Entry(TRUE, "")>>), cf |-> JStr("1.2.3.4")] }

\* A millisecond, or exactly one window.
RateSteps == {1, aiWindowMs}

InitRate ==
    /\ Init
    /\ processEnv = Env(Undefined, JStr("sk-test"), JStr("mongodb://db"))

NextRate ==
    \/ \E d \in RateSteps : Advance(d, MaxRateTicks)
    \/ \E h \in RateHeaderSamples : AllowAiCall(h)

SpecRate == InitRate /\ [][NextRate]_vars

(* ------------------- the rate limiter with its grants logged ------------ *)
\* grants with one more call granted at time t.
Granted(g, t) ==
    [x \in (DOMAIN g) \cup {t} |-> IF x = t THEN (IF t \in DOMAIN g THEN g[t] ELSE 0) + 1
                                    ELSE g[x]]

\* The log after a call at time t that returned ok.
LogCall(g, ok, t) == IF ok THEN Granted(g, t) ELSE g

\* allowAiCall(key) called at the current time by the caller without
\* headers, its result logged.
LoggedCall ==
    /\ \A k \in DOMAIN aiBucket : aiBucket[k].count < MaxCount
    /\ aiBucket' = allowAiCall(aiBucket, RateKey(NoHeaders), now).bucket
    /\ allowed' = CallRecord(aiBucket, RateKey(NoHeaders), now)
    /\ grants' = LogCall(grants, allowAiCall(aiBucket, RateKey(NoHeaders), now).ok, now)
    /\ UNCHANGED <<now, ticks, processEnv, ENV, cached, db, pc, req, notice, calls, replies,
                   resp, query, found, reason, attempts, mail, parsed, validated>>
    /\ UNCHANGED beside

NextBurst ==
    \/ \E d \in RateSteps : Advance(d, MaxBurstTicks)
    \/ LoggedCall

SpecBurst == InitRate /\ [][NextBurst]_vars

(* ----------------------------- the contact route ------------------------ *)
\* Form texts are sequences of characters; Ctrl stands for the control
\* characters of [\u0000-\u001f\u007f-\u009f].
Ctrl == "^"
JText(chars) == [t |-> "text", v |-> chars]
Blank == " "

\* String(x)
String(j) ==
    CASE j.t = "text" -> j.v
      [] j.t = "null" -> <<"n", "u", "l", "l">>
      [] j.t = "boolean" -> IF j.v THEN <<"t", "r", "u", "e">> ELSE <<"f", "a", "l", "s", "e">>
      [] OTHER -> <<"?">>

\* Boolean(x) of a form value
FormTruthy(j) ==
    CASE j.t = "undefined" -> FALSE
      [] j.t = "text" -> j.v # <<>>
      [] j.t = "null" -> FALSE
      [] j.t = "boolean" -> j.v
      [] OTHER -> TRUE

RECURSIVE TrimStart(_)
TrimStart(cs) == IF cs # <<>> /\ Head(cs) = Blank THEN TrimStart(Tail(cs)) ELSE cs
RECURSIVE TrimEnd(_)
TrimEnd(cs) ==
    IF cs # <<>> /\ cs[Len(cs)] = Blank THEN TrimEnd(SubSeq(cs, 1, Len(cs) - 1)) ELSE cs

\* input.replace(/[\u0000-\u001f\u007f-\u009f]/g, "").trim()
sanitize(cs) == TrimEnd(TrimStart(SelectSeq(cs, LAMBDA c : c # Ctrl)))

\* /.+@.+\..+/.test(email)
isValidEmail(cs) ==
    \E a \in 1..Len(cs), d \in 1..Len(cs) :
        /\ cs[a] = "@"
        /\ cs[d] = "."
        /\ a >= 2
        /\ d >= a + 2
        /\ d < Len(cs)

\* rateLimit(key, limit = 5, windowMs = 60 * 60 * 1000)
ContactLimit == 5
ContactWindowMs == 3600000

\* Faulty variant of rateLimit: a denied request restarts the window.
rateLimit_Restart(at, key, t) ==
    IF key \notin DOMAIN at \/ t - at[key].ts > ContactWindowMs
    THEN [attempts |-> [k \in (DOMAIN at) \cup {key} |->
                            IF k = key THEN [count |-> 1, ts |-> t] ELSE at[k]],
          ok |-> TRUE]
    ELSE IF at[key].count >= ContactLimit
         THEN [attempts |-> [at EXCEPT ![key].ts = t], ok |-> FALSE]
    ELSE [attempts |-> [at EXCEPT ![key].count = @ + 1], ok |-> TRUE]

\* rateLimit(key) called at time t on the map at: the map it leaves and its result.
rateLimit(at, key, t) ==
    IF key \notin DOMAIN at \/ t - at[key].ts > ContactWindowMs
    THEN [attempts |-> [k \in (DOMAIN at) \cup {key} |->
                            IF k = key THEN [count |-> 1, ts |-> t] ELSE at[k]],
          ok |-> TRUE]
    ELSE IF at[key].count >= ContactLimit THEN [attempts |-> at, ok |-> FALSE]
    ELSE [attempts |-> [at EXCEPT ![key].count = @ + 1], ok |-> TRUE]

\* ip = (req.headers.get("x-forwarded-for") || "").split(",")[0] || "unknown":
\* the first entry as it stands, blanks included.
ContactKey(h) ==
    LET first == IF h.xff.t = "undefined" THEN ""
                 ELSE (IF Head(h.xff.v).pad THEN " " ELSE "") \o Head(h.xff.v).addr
    IN IF first = "" THEN "unknown" ELSE first

\* const { name = "", email = "", ..., consent = false, companyWebsite = "" } = body || {}
FormDefaults ==
    [name |-> JText(<<>>), email |-> JText(<<>>), message |-> JText(<<>>),
     consent |-> JBool(FALSE), companyWebsite |-> JText(<<>>)]
FormField(body, k) ==
    IF body.t = "object" /\ k \in DOMAIN body.v THEN body.v[k] ELSE FormDefaults[k]

\* v: the sanitized fields the validation looks at (company, phone and subject
\* are sanitized alike and gate nothing).
Sanitized(body) ==
    [name |-> Take(sanitize(String(FormField(body, "name"))), 80),
     email |-> Take(sanitize(String(FormField(body, "email"))), 120),
     message |-> Take(sanitize(String(FormField(body, "message"))), 2000),
     consent |-> FormTruthy(FormField(body, "consent"))]

\* !v.name || !isValidEmail(v.email) || !v.message || !v.consent
InvalidForm(v) == v.name = <<>> \/ ~isValidEmail(v.email) \/ v.message = <<>> \/ ~v.consent

\* user, pass and to = CONTACT_TO || user
Configured(penv) ==
    /\ IsTruthy(penv.ZOHO_USER)
    /\ IsTruthy(penv.ZOHO_PASS)
    /\ (IsTruthy(penv.CONTACT_TO) \/ IsTruthy(penv.ZOHO_USER))

\* What the handler answers: status, whether the body is {ok: true}, whether
\* req.json() was called, and how sendMail went ("none" when it was not called).
Answer(status, ok, read, smtp) == [status |-> status, ok |-> ok, read |-> read, smtp |-> smtp]

\* Faulty variant of ContactAnswer: the form is validated before the honeypot
\* is looked at.
ContactAnswer_ValidateFirst(passed, body, penv, sendOk) ==
    IF ~passed THEN Answer(429, FALSE, FALSE, "none")
    ELSE IF body.t = "garbage" THEN Answer(500, FALSE, TRUE, "none")
    ELSE IF InvalidForm(Sanitized(body)) THEN Answer(400, FALSE, TRUE, "none")
    ELSE IF FormTruthy(FormField(body, "companyWebsite")) THEN Answer(200, TRUE, TRUE, "none")
    ELSE IF ~Configured(penv) THEN Answer(500, FALSE, TRUE, "none")
    ELSE IF sendOk THEN Answer(200, TRUE, TRUE, "ok")
    ELSE Answer(500, FALSE, TRUE, "failed")

\* The body of POST after the rate limit, try/catch included.
ContactAnswer(passed, body, penv, sendOk) ==
    IF ~passed THEN Answer(429, FALSE, FALSE, "none")
    ELSE IF body.t = "garbage" THEN Answer(500, FALSE, TRUE, "none")
    ELSE IF FormTruthy(FormField(body, "companyWebsite")) THEN Answer(200, TRUE, TRUE, "none")
    ELSE IF InvalidForm(Sanitized(body)) THEN Answer(400, FALSE, TRUE, "none")
    ELSE IF ~Configured(penv) THEN Answer(500, FALSE, TRUE, "none")
    ELSE IF sendOk THEN Answer(200, TRUE, TRUE, "ok")
    ELSE Answer(500, FALSE, TRUE, "failed")

\* POST /api/contact with headers h and body `body`; sendOk tells how
\* transporter.sendMail settles when it is called.
ContactPost(h, body, sendOk) ==
    LET rl == rateLimit(attempts, ContactKey(h), now)
    IN /\ attempts' = rl.attempts
       /\ mail' = [key |-> ContactKey(h), body |-> body,
                   answer |-> ContactAnswer(rl.ok, body, processEnv, sendOk)]
       /\ UNCHANGED <<now, ticks, processEnv, ENV, cached, db, aiBucket, pc, req, notice,
                      calls, replies, resp, query, found, reason, allowed, grants, parsed,
                      validated>>
       /\ UNCHANGED beside

\* The search limiter called beside the contact route, for the same callers.
SearchCall(h) ==
    /\ \A k \in DOMAIN aiBucket : aiBucket[k].count < MaxSearchCalls
    /\ AllowAiCall(h)

\* Forms: a complete one, and the same with one thing changed.
Chars(name) ==
    CASE name = "Ann" -> <<" ", "A", "n", "n", Ctrl>>
      [] name = "blank" -> <<" ", Ctrl, " ">>
      [] name = "a@b.c" -> <<"a", "@", "b", ".", "c">>
      [] name = "a@b" -> <<"a", "@", "b">>
      [] name = "@b.c" -> <<"@", "b", ".", "c">>
      [] name = "a@.c" -> <<"a", "@", ".", "c">>
      [] name = "a@b." -> <<"a", "@", "b", ".", " ">>
      [] name = "Hi" -> <<"H", "i">>
      [] OTHER -> <<"h", "t", "t", "p">>
GoodForm ==
    [name |-> JText(Chars("Ann")), email |-> JText(Chars("a@b.c")),
     message |-> JText(Chars("Hi")), consent |-> JBool(TRUE)]
Form(changes) == JObj(Spread(GoodForm, changes))
FormSamples ==
    { Garbage, JNull, JObj(<<>>), Form(<<>>),
      Form([companyWebsite |-> JText(Chars("http"))]),
      Form([companyWebsite |-> JText(<<>>)]),
      Form([companyWebsite |-> JText(Chars("http")), consent |-> JBool(FALSE)]),
      Form([name |-> JText(Chars("blank"))]),
      Form([name |-> JNull]),
      Form([email |-> JText(Chars("a@b"))]),
      Form([email |-> JText(Chars("@b.c"))]),
      Form([email |-> JText(Chars("a@.c"))]),
      Form([email |-> JText(Chars("a@b."))]),
      Form([message |-> JText(Chars("blank"))]),
      Form([consent |-> JBool(FALSE)]),
      Form([consent |-> JText(Chars("Hi"))]),
      JObj(Restrict(GoodForm, {"name", "email", "message"})) }

ContactHeaderSamples ==
    { NoHeaders,
      [xff |-> JArr(<<Entry(FALSE, "1.2.3.4"), Entry(TRUE, "5.6.7.8")>>), cf |-> Undefined] }

\* process.env of the contact route: the SMTP account.
Smtp(user, pass, to) == [ZOHO_USER |-> user, ZOHO_PASS |-> pass, CONTACT_TO |-> to]
ContactEnv(smtp) == Spread(Env(Undefined, Undefined, Undefined), smtp)
ContactDeployments ==
    { Deployment(ContactEnv(Smtp(JStr("ops@lanelist.example"), JStr("secret"), Undefined)), "empty"),
      Deployment(ContactEnv(Smtp(Undefined, JStr("secret"), JStr("to@lanelist.example"))), "empty"),
      Deployment(ContactEnv(Smtp(JStr("ops@lanelist.example"), JStr(""), Undefined)), "empty") }

\* A millisecond, or exactly one window.
ContactSteps == {1, ContactWindowMs}

InitContact ==
    /\ Boot(ContactDeployments)
    /\ attempts = <<>>
    /\ mail = NoMail
    /\ grants = <<>>
    /\ parsed = NoPayload
    /\ validated = NotValidated
    /\ Quiet

\* The handler with every form, for one caller.
NextContact ==
    \/ \E d \in ContactSteps : Advance(d, MaxContactTicks)
    \/ \E body \in FormSamples, sendOk \in BOOLEAN : ContactPost(NoHeaders, body, sendOk)

SpecContact == InitContact /\ [][NextContact]_vars

\* The two limiters side by side: complete forms from two callers, mail
\* delivered, and search calls of the caller without headers.
InitContactRate ==
    /\ InitContact
    /\ Configured(processEnv)

NextContactRate ==
    \/ \E d \in ContactSteps : Advance(d, MaxContactTicks)
    \/ \E h \in ContactHeaderSamples : ContactPost(h, Form(<<>>), TRUE)
    \/ SearchCall(NoHeaders)

SpecContactRate == InitContactRate /\ [][NextContactRate]_vars

(* --------------------------- the route under jest ----------------------- *)
\* jest.setup.ts gives OPENAI_API_KEY and AI_FALLBACK_ENABLED their defaults
\* before the route module is imported; dbConnect is mocked and resolves.
JestEnv == Env(JStr("true"), JStr("test-key"), JStr("mongodb://mock"))

\* beforeEach of the search tests, run between requests: the toggle is set
\* to "false" and the key deleted in process.env.
BeforeEach ==
    /\ pc \in {"idle", "done"}
    /\ processEnv' = [processEnv EXCEPT !.AI_FALLBACK_ENABLED = JStr("false"),
                                        !.OPENAI_API_KEY = Undefined]
    /\ pc' = "idle"
    /\ UNCHANGED <<now, ticks, ENV, cached, db, aiBucket, req, notice, calls, replies, resp,
                   query, found, reason, allowed>>
    /\ UNCHANGED aside

InitTest ==
    /\ Boot({Deployment(JestEnv, "empty"), Deployment(JestEnv, "seeded")})
    /\ attempts = <<>>
    /\ mail = NoMail
    /\ grants = <<>>
    /\ parsed = NoPayload
    /\ validated = NotValidated
    /\ Quiet

\* The bodies the two tests post.
TestBodies ==
    { Body([type |-> JStr("truck")]),
      Body([type |-> JStr("truck"), origin |-> JStr("FR"), destination |-> JStr("DE")]) }

\* The mocked dbConnect and query resolve; the provider is not mocked.
NextTest ==
    \/ BeforeEach
    \/ \E body \in TestBodies : Post(body, NoHeaders)
    \/ ConnectDone(TRUE)
    \/ QueryDone(TRUE)
    \/ \E reply \in ToolsReplies : ToolsDone(reply)
    \/ \E reply \in ContentReplies : JsonSchemaDone(reply)
    \/ \E reply \in ContentReplies : JsonObjectDone(reply)

SpecTest == InitTest /\ [][NextTest]_vars

(* ------------------------- the validator on its own --------------------- *)
\* Payloads that satisfy the schema and carry nothing else.
ItemFull ==
    JObj([id |-> JStr("ai-4"), name |-> JStr("Baltic Tank Lines"),
          types |-> JArr(<<JStr("tanker"), JStr("reefer")>>),
          lanes |-> JArr(<<Lane("PL", "LT"), Lane("LT", "LV")>>),
          description |-> JNull, logoEmoji |-> JStr("ship")])
CleanPayloads == {PEmpty, POne, Payload(<<ItemFull, ItemA>>)}

\* An object with property k set to val / without property k.
WithProp(o, k, val) == JObj(Spread(o.v, [x \in {k} |-> val]))
Without(o, k) == JObj(Restrict(o.v, Keys(o) \ {k}))
ItemOf(p, i) == p.v.items.v[i]
SetItem(p, i, item) ==
    JObj([p.v EXCEPT !.items = JArr([p.v.items.v EXCEPT ![i] = item])])
SetLane(item, j, lane) ==
    JObj([item.v EXCEPT !.lanes = JArr([item.v.lanes.v EXCEPT ![j] = lane])])

\* A property the schema does not know.
Unknown == "trackingUrl"
UnknownValue == JStr("https://carrier.example/t")

\* Where an unknown property can be put: the top level, item i, lane j of item i.
Places(p) ==
    {[level |-> "top"]}
    \cup {[level |-> "item", i |-> i] : i \in 1..Len(p.v.items.v)}
    \cup UNION {{[level |-> "lane", i |-> i, j |-> j] : j \in 1..Len(ItemOf(p, i).v.lanes.v)} :
                 i \in {i \in 1..Len(p.v.items.v) : Has(ItemOf(p, i), "lanes")}}

Injected(p, at) ==
    CASE at.level = "top" -> WithProp(p, Unknown, UnknownValue)
      [] at.level = "item" -> SetItem(p, at.i, WithProp(ItemOf(p, at.i), Unknown, UnknownValue))
      [] OTHER -> SetItem(p, at.i,
                         SetLane(ItemOf(p, at.i), at.j,
                                 WithProp(ItemOf(p, at.i).v.lanes.v[at.j], Unknown,
                                          UnknownValue)))

\* The provider's payload carries an unknown property at `at`.
InjectUnknown(at) ==
    /\ ~validated.done
    /\ at \in Places(parsed.data)
    /\ Len(parsed.edits) < MaxEdits
    /\ parsed' = [parsed EXCEPT !.data = Injected(parsed.data, at),
                                !.edits = Append(@, [op |-> "inject", at |-> at])]
    /\ UNCHANGED <<now, ticks, processEnv, ENV, cached, db, aiBucket, pc, req, notice, calls,
                   replies, resp, query, found, reason, allowed, attempts, mail, grants,
                   validated>>
    /\ UNCHANGED beside

\* Item i of the provider's payload lacks the required property k.
DropRequired(i, k) ==
    /\ ~validated.done
    /\ Len(parsed.edits) < MaxEdits
    /\ i \in 1..Len(parsed.data.v.items.v)
    /\ Has(ItemOf(parsed.data, i), k)
    /\ parsed' = [parsed EXCEPT !.data = SetItem(parsed.data, i, Without(ItemOf(parsed.data, i), k)),
                                !.edits = Append(@, [op |-> "drop", i |-> i, k |-> k])]
    /\ UNCHANGED <<now, ticks, processEnv, ENV, cached, db, aiBucket, pc, req, notice, calls,
                   replies, resp, query, found, reason, allowed, attempts, mail, grants,
                   validated>>
    /\ UNCHANGED beside

\* validateCarriers(parsed): the verdict, and parsed as the call leaves it
\* when it is valid.
ValidateCarriers ==
    /\ ~validated.done
    /\ validated' = IF validateCarriers(parsed.data)
                     THEN [done |-> TRUE, ok |-> TRUE, data |-> StripCarriers(parsed.data)]
                     ELSE [done |-> TRUE, ok |-> FALSE]
    /\ UNCHANGED <<now, ticks, processEnv, ENV, cached, db, aiBucket, pc, req, notice, calls,
                   replies, resp, query, found, reason, allowed, attempts, mail, grants,
                   parsed>>
    /\ UNCHANGED beside

InitValidator ==
    /\ Boot({Deployment(Env(Undefined, JStr("sk-test"), JStr("mongodb://db")), "empty")})
    /\ attempts = <<>>
    /\ mail = NoMail
    /\ grants = <<>>
    /\ \E p \in CleanPayloads : parsed = [base |-> p, data |-> p, edits |-> <<>>]
    /\ validated = NotValidated
    /\ Quiet

NextValidator ==
    \/ \E at \in UNION {Places(p) : p \in CleanPayloads} : InjectUnknown(at)
    \/ \E i \in 1..2, k \in ItemRequired : DropRequired(i, k)
    \/ ValidateCarriers

SpecValidator == InitValidator /\ [][NextValidator]_vars

(* ------------------------------ properties ------------------------------ *)
\* The request in flight has been answered / has been answered by aiFallback.
Answered == pc = "done"
AiAnswered == pc = "done" /\ notice # ""
IsJson == resp.status = "json"
Suggestions == resp.body.suggestions
ToggleOn == ENV.AI_FALLBACK_ENABLED = JStr("true")

\* The single placeholder item of the stub generator.
IsStubList(s) ==
    /\ Len(s) = 1
    /\ s[1].name = JStr("Regional Carrier Suggestion")
    /\ s[1].source = JStr("ai")

\* The filter fields supplied with a non-empty value.
Supplied(params) ==
    {k \in {"type", "origin", "destination"} : k \in DOMAIN params /\ params[k] # JStr("")}

\* What a provider reply amounts to: the call threw, carried no function call
\* or no arguments, carried text that is no JSON document, a document that
\* fails the schema, a valid payload without items, or a valid payload with items.
ClassText(text) ==
    IF ~ParseOk(text) THEN "unparseable"
    ELSE IF ~validateCarriers(text.doc) THEN "invalid"
    ELSE IF text.doc.v.items.v = <<>> THEN "empty"
    ELSE "items"

FirstFn(reply) ==
    reply.tool_calls[CHOOSE i \in 1..Len(reply.tool_calls) :
                        /\ reply.tool_calls[i].type = "function"
                        /\ \A j \in 1..(i - 1) : reply.tool_calls[j].type # "function"]

ToolsText(reply) == FirstFn(reply).arguments
ContentText(reply) == sanitizeJsonString(ContentOf(reply))

ClassTools(reply) ==
    IF reply.kind = "throw" THEN "throw"
    ELSE IF \A i \in 1..Len(reply.tool_calls) : reply.tool_calls[i].type # "function"
         THEN "no_call"
    ELSE IF ToolsText(reply).empty THEN "no_args"
    ELSE ClassText(ToolsText(reply))

ClassContent(reply) ==
    IF reply.kind = "throw" THEN "throw" ELSE ClassText(ContentText(reply))

\* The class of the i-th reply of the request in flight (1: tools, 2: json_schema,
\* 3: json_object) and the text it carried.
ClassAt(i) == IF i = 1 THEN ClassTools(replies[i]) ELSE ClassContent(replies[i])
TextAt(i) == IF i = 1 THEN ToolsText(replies[i]) ELSE ContentText(replies[i])
Strategies == <<"tools", "json_schema", "json_object">>
EmptyReason ==
    <<"empty_model_output(tools)", "empty_model_output(json_schema)",
      "empty_model_output(json_object)">>
Failures == {"throw", "no_call", "no_args", "unparseable", "invalid"}

\* s is the first (at most MaxItems) items of the payload in text, in order.
Min(a, b) == IF a <= b THEN a ELSE b
FromPayload(s, text) ==
    LET items == text.doc.v.items.v
    IN /\ Len(s) = Min(Len(items), MaxItems)
       /\ \A i \in 1..Len(s) :
            /\ s[i].id = items[i].v.id
            /\ s[i].name = items[i].v.name
            /\ s[i].types = items[i].v.types

\* C1: whenever aiFallback has returned, for whatever toggle, filter, rate
\* state, credential and provider replies, the handler holds a JSON response
\* whose suggestions list has at least one item.
C1_AlwaysNonEmpty ==
    AiAnswered =>
        /\ IsJson
        /\ "suggestions" \in DOMAIN resp.body
        /\ Len(Suggestions) >= 1

\* All three strategies were tried and the last one returned a valid payload
\* without items.
C1_Witness ==
    /\ AiAnswered
    /\ Len(replies) = 3
    /\ ClassAt(3) = "empty"
    /\ Len(Suggestions) = 1

\* C2 (as claimed): every answered request holds a SearchResult, either
\* {carriers non-empty, usedAi=false} or {carriers=[], suggestions non-empty,
\* usedAi=true, notice}; nothing propagates out of the handler.
C2_EveryRequestResolves ==
    Answered =>
        /\ IsJson
        /\ \/ /\ resp.body.usedAi = FALSE
              /\ Len(resp.body.carriers) > 0
           \/ /\ resp.body.usedAi = TRUE
              /\ resp.body.carriers = <<>>
              /\ Len(Suggestions) > 0
              /\ "notice" \in DOMAIN resp.body

\* C3: once strategy A's reply is a valid payload with items, the request is
\* answered with A's items and the provider was called once; once A has failed
\* and B's reply is a valid payload with items, the request is answered with
\* B's items and strategy C was never called.
C3_StrategyPrecedence ==
    \A i \in 1..Min(Len(replies), 2) :
        ClassAt(i) = "items" =>
            /\ Answered
            /\ calls = SubSeq(Strategies, 1, i)
            /\ Len(replies) = i
            /\ IsJson
            /\ FromPayload(Suggestions, TextAt(i))

C3_Witness ==
    /\ Len(replies) = 2
    /\ ClassAt(1) \in Failures
    /\ ClassAt(2) = "items"
    /\ Answered
    /\ Len(Suggestions) >= 1

C5_FailureDegrades ==
    /\ \A i \in 1..Min(Len(replies), 2) :
          ClassAt(i) \in Failures =>
              /\ Len(calls) > i
              /\ calls[i + 1] = Strategies[i + 1]
    /\ (Len(replies) = 3 /\ ClassAt(3) \in Failures) =>
          /\ Answered
          /\ calls = Strategies
          /\ IsJson
          /\ IsStubList(Suggestions)

C5_Witness ==
    /\ Len(replies) = 3
    /\ ClassAt(1) = "invalid"
    /\ ClassAt(2) = "unparseable"
    /\ ClassAt(3) = "throw"
    /\ Answered
    /\ IsStubList(Suggestions)

\* C6: with the toggle off no provider call is ever made, and aiFallback
\* returns the stub with the reason ai_disabled, whatever the filter and the
\* credential.
C6_ToggleOffStub ==
    ~ToggleOn =>
        /\ calls = <<>>
        /\ AiAnswered => (IsJson /\ reason = "ai_disabled" /\ IsStubList(Suggestions))

C6_Witness ==
    /\ ~ToggleOn
    /\ AiAnswered
    /\ Cardinality(Supplied(req.params)) = 3
    /\ IsTruthy(ENV.OPENAI_API_KEY)
    /\ reason = "ai_disabled"

\* C7: a request with fewer than 2 of type, origin, destination supplied
\* (non-empty) makes no provider call, and aiFallback returns the stub for it.
C7_MinFilters ==
    Cardinality(Supplied(req.params)) < 2 =>
        /\ calls = <<>>
        /\ AiAnswered => (IsJson /\ IsStubList(Suggestions))

C7_Witness ==
    /\ AiAnswered
    /\ ToggleOn
    /\ IsTruthy(ENV.OPENAI_API_KEY)
    /\ "type" \in DOMAIN req.params
    /\ Cardinality(Supplied(req.params)) = 1
    /\ reason = "min_filters"
    /\ calls = <<>>

\* C8: a call of allowAiCall inside the window returns true while fewer than
\* 20 calls were counted in it and false from the 21st on; a call made more
\* than 60,000 ms after the window start returns true, however high the count
\* had grown; the stored count is the number of calls in the current window.
C8_RateLimitWindow ==
    allowed.called =>
        LET b == allowed.before
            inWindow == allowed.at - b.since <= 60000
        IN /\ (inWindow /\ b.count < 20) => allowed.ok
           /\ (inWindow /\ b.count >= 20) => ~allowed.ok
           /\ ~inWindow => allowed.ok
           /\ aiBucket[allowed.key].count = (IF inWindow THEN b.count + 1 ELSE 1)

\* A key that had been denied is allowed again after the window has elapsed.
C8_Witness ==
    /\ allowed.called
    /\ allowed.ok
    /\ allowed.before.count > 20
    /\ allowed.at - allowed.before.since > 60000
    /\ aiBucket[allowed.key].count = 1

\* C9: when the query returned at least one document, the request is answered
\* with usedAi=false, no suggestions, and exactly the returned documents, in
\* order, at most 50, each tagged source="db"; aiFallback was not invoked, the
\* rate limiter was not called and no provider call was made.
C9_DbPriority ==
    (found.status = "docs" /\ Len(found.docs) > 0) =>
        /\ Answered
        /\ IsJson
        /\ resp.body.usedAi = FALSE
        /\ "suggestions" \notin DOMAIN resp.body
        /\ Len(resp.body.carriers) = Len(found.docs)
        /\ Len(resp.body.carriers) <= 50
        /\ \A i \in 1..Len(found.docs) :
              /\ resp.body.carriers[i].id = JStr(found.docs[i]._id)
              /\ resp.body.carriers[i].name = found.docs[i].name
              /\ "source" \in DOMAIN resp.body.carriers[i]
              /\ resp.body.carriers[i].source = JStr("db")
        /\ calls = <<>>
        /\ notice = ""
        /\ ~allowed.called

\* The filter matched more documents than the query returns.
C9_Witness ==
    /\ found.status = "docs"
    /\ Len(found.docs) = 50
    /\ Len(Find(Collection(db), query.q)) > 50
    /\ Answered
    /\ resp.body.usedAi = FALSE

\* C10: when the query returned no document, the request is answered with
\* usedAi=true, carriers=[] and a non-empty suggestions list whose items all
\* have source="ai": the stub, or the items of the last provider reply; with
\* the toggle off the suggestions are exactly one stub item.
C10_EmptyDbFallback ==
    (found.status = "docs" /\ Len(found.docs) = 0 /\ Answered) =>
        /\ IsJson
        /\ resp.body.usedAi = TRUE
        /\ resp.body.carriers = <<>>
        /\ Len(Suggestions) >= 1
        /\ \A i \in 1..Len(Suggestions) : Suggestions[i].source = JStr("ai")
        /\ IF reason = "" THEN FromPayload(Suggestions, TextAt(Len(replies)))
                          ELSE IsStubList(Suggestions)
        /\ ~ToggleOn => (reason = "ai_disabled" /\ IsStubList(Suggestions))

\* The test's case: type, origin and destination supplied, an empty
\* collection, the toggle off.
C10_Witness ==
    /\ found.status = "docs"
    /\ Len(found.docs) = 0
    /\ Answered
    /\ db = "empty"
    /\ ~ToggleOn
    /\ Cardinality(Supplied(req.params)) = 3
    /\ resp.body.usedAi = TRUE
    /\ IsStubList(Suggestions)

\* C11: the stub is exactly one item with verified=false, source="ai",
\* confidence=0.55, types = [filter.type] when a type is supplied and ["truck"]
\* otherwise, and one lane from filter.origin (default "FR") to
\* filter.destination (default "ES"); but for its id it is the same at every
\* time, a function of the filter only.
StubFields ==
    {"name", "verified", "types", "lanes", "description", "logoEmoji", "source", "confidence"}
C11_StubShape ==
    (Answered /\ IsJson /\ reason # "") =>
        LET s == Suggestions
            p == req.params
        IN /\ Len(s) = 1
           /\ DOMAIN s[1] = StubFields \cup {"id"}
           /\ s[1].verified = JBool(FALSE)
           /\ s[1].source = JStr("ai")
           /\ s[1].confidence = JNum(55)
           /\ s[1].types = JArr(<<IF "type" \in Supplied(p) THEN p.type ELSE JStr("truck")>>)
           /\ s[1].lanes =
                 JArr(<<JObj([origin |-> IF "origin" \in Supplied(p) THEN p.origin
                                         ELSE JStr("FR"),
                              destination |-> IF "destination" \in Supplied(p)
                                              THEN p.destination ELSE JStr("ES")])>>)
           /\ \A t \in {0, 1, now, now + aiWindowMs} :
                 /\ Len(stubSuggestion(p, t)) = 1
                 /\ Restrict(stubSuggestion(p, t)[1], StubFields) = Restrict(s[1], StubFields)

\* A stub answering a filter with a type and no origin or destination.
C11_Witness ==
    /\ Answered
    /\ IsJson
    /\ reason = "min_filters"
    /\ Supplied(req.params) = {"type"}
    /\ Suggestions[1].types = JArr(<<JStr("tanker")>>)
    /\ Suggestions[1].lanes = JArr(<<Lane("FR", "ES")>>)

\* C12: every item aiFallback returns, stub or provider item, has source="ai",
\* verified=false and confidence=0.55, whatever the provider payload carried,
\* and there are at most 5 of them.
C12_AiItemsMarked ==
    (AiAnswered /\ IsJson) =>
        /\ Len(Suggestions) <= 5
        /\ \A i \in 1..Len(Suggestions) :
              /\ {"source", "verified", "confidence"} \subseteq DOMAIN Suggestions[i]
              /\ Suggestions[i].source = JStr("ai")
              /\ Suggestions[i].verified = JBool(FALSE)
              /\ Suggestions[i].confidence = JNum(55)

\* A provider payload whose first item says verified=true, source="db",
\* confidence=99 has been returned.
C12_Witness ==
    /\ AiAnswered
    /\ IsJson
    /\ reason = ""
    /\ ClassAt(Len(replies)) = "items"
    /\ TextAt(Len(replies)).doc = PRich
    /\ ItemRich.v.verified = JBool(TRUE)
    /\ Suggestions[1].id = ItemRich.v.id
    /\ Suggestions[1].verified = JBool(FALSE)

\* C13: a payload satisfying the schema is accepted unchanged; with an unknown
\* property put in at the top level, in an item or in a lane it is accepted
\* and what validation leaves is the original payload; with an item lacking
\* id, name, types or lanes it is rejected.
Dropped == {n \in 1..Len(parsed.edits) : parsed.edits[n].op = "drop"}
InjectedAt == {parsed.edits[n].at.level : n \in (1..Len(parsed.edits)) \ Dropped}
C13_ValidatorRoundTrip ==
    validated.done =>
        /\ (Dropped = {} => validated.ok /\ validated.data = parsed.base)
        /\ (Dropped # {} => ~validated.ok)

\* A payload with an unknown property in an item and in a lane has been
\* validated and is not the original.
C13_Witness ==
    /\ validated.done
    /\ validated.ok
    /\ InjectedAt = {"item", "lane"}
    /\ parsed.data # parsed.base
    /\ Len(parsed.base.v.items.v) = 2

\* C14: once AI_FALLBACK_ENABLED is "false" in the process environment, a
\* request whose query returned no document makes no provider call and is
\* answered by the ai_disabled stub.
C14_ToggleHonoured ==
    (/\ processEnv.AI_FALLBACK_ENABLED = JStr("false")
     /\ pc # "idle"
     /\ found.status = "docs"
     /\ Len(found.docs) = 0) =>
        /\ calls = <<>>
        /\ (Answered => reason = "ai_disabled")

\* C15: for every IP key at most 5 contact requests pass rateLimit in one
\* window of one hour: a request passes only by opening a window (count 1)
\* or by raising a count below 5 by one in the current window; a request
\* made when the count is 5 and the window has not elapsed is answered 429,
\* its body unread and no mail sent, and leaves the count and the window
\* start as they were; the contact limiter never changes the search buckets
\* and the search limiter never changes the contact limiter.
ContactHandled == mail' # mail \/ attempts' # attempts
ContactDenied ==
    /\ mail'.answer.status = 429
    /\ ~mail'.answer.read
    /\ mail'.answer.smtp = "none"
    /\ attempts' = attempts
    /\ mail'.key \in DOMAIN attempts
    /\ attempts[mail'.key].count = 5
    /\ now - attempts[mail'.key].ts <= 3600000
ContactPassed ==
    LET k == mail'.key
    IN /\ mail'.answer.status # 429
       /\ DOMAIN attempts' = DOMAIN attempts \cup {k}
       /\ \A o \in DOMAIN attempts \ {k} : attempts'[o] = attempts[o]
       /\ IF k \in DOMAIN attempts /\ now - attempts[k].ts <= 3600000
          THEN /\ attempts[k].count < 5
               /\ attempts'[k] = [count |-> attempts[k].count + 1, ts |-> attempts[k].ts]
          ELSE attempts'[k] = [count |-> 1, ts |-> now]
C15_ContactRateLimit ==
    /\ [](\A k \in DOMAIN attempts : attempts[k].count \in 1..5)
    /\ [][/\ ContactHandled => (ContactDenied \/ ContactPassed) /\ aiBucket' = aiBucket
          /\ aiBucket' # aiBucket => attempts' = attempts /\ mail' = mail]_vars

\* A sixth request in a window that opened a full hour ago has been denied,
\* while the search limiter holds a bucket of its own.
C15_Witness ==
    /\ mail.answer.status = 429
    /\ attempts[mail.key].count = 5
    /\ now - attempts[mail.key].ts = 3600000
    /\ Cardinality(DOMAIN attempts) = 2
    /\ aiBucket # <<>>

\* C16: the contact handler answers 429, 200, 400 or 500 and never throws;
\* mail is sent only when the limiter allowed, the honeypot is empty, the
\* sanitized name and message are non-empty, the email is well-formed,
\* consent holds and the SMTP account is configured.  Past the limiter a
\* filled honeypot gives 200 {ok: true} without mail whatever the form,
\* otherwise an invalid form gives 400 without mail, otherwise a missing
\* account gives 500 without mail, and a failed send gives 500.
Limited == mail.answer.status = 429
Readable == mail.body.t # "garbage"
Honeypot == Readable /\ FormTruthy(FormField(mail.body, "companyWebsite"))
FormValid ==
    /\ Readable
    /\ Sanitized(mail.body).name # <<>>
    /\ isValidEmail(Sanitized(mail.body).email)
    /\ Sanitized(mail.body).message # <<>>
    /\ Sanitized(mail.body).consent
C16_ContactGates ==
    mail.key # "" =>
        LET a == mail.answer
        IN /\ a.status \in {200, 400, 429, 500}
           /\ (a.smtp # "none" =>
                 ~Limited /\ ~Honeypot /\ FormValid /\ Configured(processEnv))
           /\ (~Limited /\ Honeypot => a.status = 200 /\ a.ok /\ a.smtp = "none")
           /\ (~Limited /\ Readable /\ ~Honeypot /\ ~FormValid =>
                 a.status = 400 /\ a.smtp = "none")
           /\ (~Limited /\ ~Honeypot /\ FormValid /\ ~Configured(processEnv) =>
                 a.status = 500 /\ a.smtp = "none")
           /\ (a.smtp = "failed" => a.status = 500)
           /\ (a.smtp = "ok" => a.status = 200 /\ a.ok)
           /\ (~Limited /\ ~Readable => a.status = 500 /\ a.smtp = "none")
           /\ (a.ok <=> a.status = 200)

\* Mail has been sent for a form whose name needed sanitizing.
C16_Witness ==
    /\ mail.key # ""
    /\ mail.answer.smtp = "ok"
    /\ mail.answer.status = 200
    /\ FormValid
    /\ String(FormField(mail.body, "name")) # Sanitized(mail.body).name
    /\ Configured(processEnv)

\* C17: within one request the provider calls are A, then B, then C, each at
\* most once and at most three in all; at most one call is outstanding, and
\* a call is issued only when every earlier one has completed and failed.
Outstanding == Len(calls) - Len(replies)
C17_Sequential ==
    /\ Len(calls) <= 3
    /\ \A i \in 1..Len(calls) : i <= 3 /\ calls[i] = Strategies[i]
    /\ Outstanding \in {0, 1}
    /\ Outstanding = 1 <=> pc \in {"tools", "json_schema", "json_object"}
    /\ Outstanding = 1 => pc = calls[Len(calls)]
    /\ \A i \in 1..Len(calls) :
          \A j \in 1..(i - 1) : j <= Len(replies) /\ ClassAt(j) \in Failures

\* C is outstanding after A and B have completed and failed.
C17_Witness ==
    /\ calls = Strategies
    /\ pc = "json_object"
    /\ Len(replies) = 2
    /\ ClassAt(1) \in Failures
    /\ ClassAt(2) \in Failures

\* C18: the gates are passed in the order toggle, filter count, rate limiter,
\* credential: the reason of a stopped call names the first gate that fails;
\* the step of a call stopped by the toggle or the filter count leaves every
\* rate bucket as it was, and the step of a call stopped by the missing
\* credential has counted the call in the caller's bucket (one more in the
\* current window, or 1 in a window opened by the call) and no other bucket.
GateOrder ==
    AiAnswered =>
        /\ reason = "ai_disabled" <=> ~ToggleOn
        /\ reason = "min_filters" <=> (ToggleOn /\ Cardinality(Supplied(req.params)) < 2)
        /\ reason = "rate_limited" =>
              ToggleOn /\ Cardinality(Supplied(req.params)) >= 2 /\ ~allowed.ok
        /\ reason = "no_key" =>
              /\ ToggleOn
              /\ Cardinality(Supplied(req.params)) >= 2
              /\ allowed.ok
              /\ ENV.OPENAI_API_KEY \in {Undefined, JStr("")}
StoppedBy(gates) == pc # "done" /\ pc' = "done" /\ notice' # "" /\ reason' \in gates
CountedOnce ==
    LET k == req.rateKey
    IN /\ DOMAIN aiBucket' = DOMAIN aiBucket \cup {k}
       /\ \A o \in DOMAIN aiBucket \ {k} : aiBucket'[o] = aiBucket[o]
       /\ IF k \in DOMAIN aiBucket /\ now - aiBucket[k].since <= 60000
          THEN aiBucket'[k] = [aiBucket[k] EXCEPT !.count = @ + 1]
          ELSE aiBucket'[k] = [count |-> 1, since |-> now]
C18_GuardrailFrame ==
    /\ []GateOrder
    /\ [][/\ StoppedBy({"ai_disabled", "min_filters"}) => aiBucket' = aiBucket
          /\ StoppedBy({"no_key"}) => CountedOnce]_vars

\* A call stopped by the missing credential has raised an existing bucket.
C18_Witness ==
    /\ AiAnswered
    /\ reason = "no_key"
    /\ allowed.called
    /\ ~allowed.fresh
    /\ aiBucket[req.rateKey].count = allowed.before.count + 1
    /\ aiBucket[req.rateKey].count >= 2

\* C19: every call of allowAiCall for a key leaves that key's bucket as the
\* fixed-window algorithm says -- reset to count 0 and start now only when
\* now - start > 60,000, then count + 1, denied or not -- returns true
\* exactly when the new count is at most 20, and changes no other bucket.
FixedWindow(b, t) ==
    IF t - b.since > 60000 THEN [count |-> 0 + 1, since |-> t]
    ELSE [count |-> b.count + 1, since |-> b.since]
C19_FixedWindow ==
    [][aiBucket' # aiBucket =>
         LET k == allowed'.key
             b == IF k \in DOMAIN aiBucket THEN aiBucket[k] ELSE [count |-> 0, since |-> now]
         IN /\ allowed'.called
            /\ allowed'.at = now
            /\ DOMAIN aiBucket' = DOMAIN aiBucket \cup {k}
            /\ aiBucket'[k] = FixedWindow(b, now)
            /\ allowed'.ok <=> FixedWindow(b, now).count <= 20
            /\ \A o \in DOMAIN aiBucket \ {k} : aiBucket'[o] = aiBucket[o]]_vars

\* A denied call made exactly 60,000 ms after the window start has stayed in
\* the window and been counted, beside another key's bucket.
C19_Witness ==
    /\ allowed.called
    /\ ~allowed.ok
    /\ allowed.at - allowed.before.since = 60000
    /\ aiBucket[allowed.key].since = allowed.before.since
    /\ aiBucket[allowed.key].count = allowed.before.count + 1
    /\ allowed.before.count > 20
    /\ Cardinality(DOMAIN aiBucket) = 2

\* C20: for one key, the calls granted in any interval of length 60,000 ms
\* number at most 2 x 20 - 1 = 39, and 39 is reached (19 at the end of one
\* window, 20 at the start of the next): the first grant of a window is made
\* at its start and the next window starts more than 60,000 ms later, so 40
\* grants never fit in such an interval.
RECURSIVE GrantsIn(_)
GrantsIn(T) ==
    IF T = {} THEN 0
    ELSE LET t == CHOOSE x \in T : TRUE IN grants[t] + GrantsIn(T \ {t})
Burst(a) == GrantsIn({t \in DOMAIN grants : a <= t /\ t <= a + 60000})
C20_BurstBound == \A a \in DOMAIN grants : Burst(a) <= 39

\* 39 grants in an interval of 60,000 ms, spanning two windows.
C20_Witness ==
    \E a \in DOMAIN grants :
        /\ Burst(a) = 39
        /\ a + 60000 \in DOMAIN grants
        /\ grants[a + 60000] = 20
        /\ aiBucket[RateKey(NoHeaders)].since = a + 60000

\* C20 as stated: the 20 grants at the end of one window and the 20 at the
\* start of the next, 40 in all, lie in one interval of length 60,000 ms.
C20_BurstReaches40 ==
    GrantsIn(DOMAIN grants) >= 40 => \E a \in DOMAIN grants : Burst(a) >= 40

(* ------------------- the search route, filter by filter ------------------ *)
\* Filters that reach the database and filters that reach the fallback: none,
\* only falsy values, the verified flag alone, an origin and a destination,
\* a type outside the enum, every field, and a type with a destination.
SearchBodies ==
    { Body(<<>>),
      Body([type |-> JStr(""), verifiedOnly |-> JBool(FALSE)]),
      Body([verifiedOnly |-> JBool(TRUE)]),
      Body([origin |-> JStr("FR"), destination |-> JStr("DE")]),
      Body([type |-> JStr("van"), origin |-> JStr("FR")]),
      Body([type |-> JStr("truck"), origin |-> JStr("FR"), destination |-> JStr("DE"),
            verifiedOnly |-> JBool(TRUE)]),
      Body([type |-> JStr("reefer"), destination |-> JStr("ES")]) }

\* A schema-valid item whose types array is empty.
ItemTypeless == JObj([id |-> JStr("ai-4"), name |-> JStr("No Types"),
                      types |-> JArr(<<>>), lanes |-> JArr(<<Lane("FR", "DE")>>)])
PTypeless == Payload(<<ItemTypeless>>)

SearchToolsReplies ==
    { Throw,
      ToolCalls(<<Fn(Plain(PRich))>>),
      ToolCalls(<<Fn(Plain(PTypeless))>>) }
SearchContentReplies ==
    { Throw,
      Content(JStr(Plain(POne))),
      Content(JStr(Plain(PRich))),
      Content(JStr(Plain(PTypeless))) }

SearchDeployments ==
    { Deployment(Env(JStr("true"), JStr("sk-test"), JStr("mongodb://db")), "seeded"),
      Deployment(Env(JStr("true"), JStr("sk-test"), JStr("mongodb://db")), "empty"),
      Deployment(Env(JStr("false"), JStr("sk-test"), JStr("mongodb://db")), "empty"),
      Deployment(Env(JStr("true"), Undefined, Undefined), "seeded") }

InitSearch ==
    /\ Boot(SearchDeployments)
    /\ attempts = <<>>
    /\ mail = NoMail
    /\ grants = <<>>
    /\ parsed = NoPayload
    /\ validated = NotValidated
    /\ Quiet

NextSearch ==
    \/ \E body \in SearchBodies : Post(body, NoHeaders)
    \/ \E up \in BOOLEAN : ConnectDone(up)
    \/ \E ok \in BOOLEAN : QueryDone(ok)
    \/ \E reply \in SearchToolsReplies : ToolsDone(reply)
    \/ \E reply \in SearchContentReplies : JsonSchemaDone(reply)
    \/ \E reply \in SearchContentReplies : JsonObjectDone(reply)

SpecSearch == InitSearch /\ [][NextSearch]_vars

(* --------------------- claims on the search route ----------------------- *)
UsedAi == "usedAi" \in DOMAIN resp.body /\ resp.body.usedAi
Notices == {NoticeUnavailable, NoticeNoneFound, NoticeQueryError}
Noticed(n) == "notice" \in DOMAIN resp.body /\ resp.body.notice = n
Carriers == resp.body.carriers

\* C22: the notice of a fallback response names why the database did not
\* answer: "Database unavailable" exactly when the connection failed, and then
\* no query was built or executed for the request; "No verified carriers
\* found" exactly when the query returned zero documents; "error querying the
\* database" exactly when the query threw.  A fallback response carries one of
\* these three notices and a database response carries none.
C22_NoticeCause ==
    Answered /\ IsJson =>
        /\ ~UsedAi => "notice" \notin DOMAIN resp.body /\ notice = ""
        /\ UsedAi =>
            /\ \E n \in Notices : Noticed(n) /\ notice = n
            /\ Noticed(NoticeUnavailable) <=> ~query.built
            /\ ~query.built => found = NotFound /\ ~cached.conn
            /\ Noticed(NoticeNoneFound) <=>
                   (found.status = "docs" /\ "docs" \in DOMAIN found /\ found.docs = <<>>)
            /\ Noticed(NoticeQueryError) <=> found = QueryThrew

\* The connection attempt of a configured deployment failed and the request
\* was answered by the fallback under the "Database unavailable" notice.
C22_Witness ==
    /\ Answered /\ IsJson /\ UsedAi
    /\ Noticed(NoticeUnavailable)
    /\ IsTruthy(processEnv.MONGODB_URI)
    /\ cached.promise = "rejected"
    /\ query = NoQuery

\* C23: the query constrains exactly the filter fields supplied with a truthy
\* value: type -> types, origin -> lanes.origin, destination ->
\* lanes.destination, each with the value supplied, and verifiedOnly ->
\* verified = true.  A filter without such a field gives the empty query,
\* which returns the collection (up to the limit); with verifiedOnly every
\* carrier returned is verified.
QueryField == [type |-> "types", origin |-> "lanes.origin",
               destination |-> "lanes.destination"]
C23_QueryFromFilter ==
    query.built =>
        LET p == req.params
            flagged == "verifiedOnly" \in DOMAIN p /\ IsTruthy(p.verifiedOnly)
            given == {k \in DOMAIN QueryField : k \in DOMAIN p /\ IsTruthy(p[k])}
        IN /\ DOMAIN query.q = {QueryField[k] : k \in given}
                                 \cup (IF flagged THEN {"verified"} ELSE {})
           /\ \A k \in given : QueryField[k] \in DOMAIN query.q /\ query.q[QueryField[k]] = p[k]
           /\ flagged => "verified" \in DOMAIN query.q /\ query.q["verified"] = JBool(TRUE)
           /\ (given = {} /\ ~flagged /\ found.status = "docs") =>
                  found.docs = Take(Collection(db), QueryLimit)
           /\ (flagged /\ Answered /\ IsJson /\ ~UsedAi) =>
                  \A i \in 1..Len(Carriers) : Carriers[i].verified = JBool(TRUE)

\* The verified flag alone: the query is {verified: true} and the one verified
\* carrier of the collection is returned.
C23_Witness ==
    /\ Answered /\ IsJson /\ ~UsedAi
    /\ query.built
    /\ DOMAIN query.q = {"verified"}
    /\ Len(Carriers) = 1
    /\ Carriers[1].name = Alpine.name

\* C24: no suggestion of a fallback response carries contact or rating; its
\* fields are among id, name, types, lanes, description, logoEmoji (the
\* schema's) and verified, source, confidence (the server's).
SuggestionFields ==
    {"id", "name", "types", "lanes", "description", "logoEmoji",
     "verified", "source", "confidence"}
C24_NoContactInAi ==
    (Answered /\ IsJson /\ UsedAi) =>
        \A i \in 1..Len(Suggestions) :
            /\ DOMAIN Suggestions[i] \subseteq SuggestionFields
            /\ "contact" \notin DOMAIN Suggestions[i]
            /\ "rating" \notin DOMAIN Suggestions[i]

\* The provider sent an item with contact and rating, and the item was
\* returned as a suggestion.
C24_Witness ==
    /\ Answered /\ IsJson /\ UsedAi
    /\ replies # <<>>
    /\ ClassAt(Len(replies)) = "items"
    /\ LET sent == TextAt(Len(replies)).doc.v.items.v[1]
       IN /\ {"contact", "rating"} \subseteq Keys(sent)
          /\ Suggestions[1].id = sent.v.id

\* C25 as stated: every suggestion of a fallback response has a non-empty
\* types list whose members are all among truck, reefer, container, flatbed,
\* tanker, whatever the filter and whatever valid payload the provider sent.
C25_TypesInEnum ==
    (Answered /\ IsJson /\ UsedAi) =>
        \A i \in 1..Len(Suggestions) :
            /\ "types" \in DOMAIN Suggestions[i]
            /\ Suggestions[i].types.v # <<>>
            /\ \A j \in 1..Len(Suggestions[i].types.v) :
                   Suggestions[i].types.v[j].v \in TransportTypes

\* C26 as stated: with origin o and destination d both supplied, every carrier
\* returned from the database has one lane with origin o and destination d.
C26_SameLane ==
    (Answered /\ IsJson /\ ~UsedAi /\ {"origin", "destination"} \subseteq Supplied(req.params)) =>
        \A i \in 1..Len(Carriers) :
            \E l \in 1..Len(Carriers[i].lanes.v) :
                /\ Carriers[i].lanes.v[l].v.origin = req.params.origin
                /\ Carriers[i].lanes.v[l].v.destination = req.params.destination

\* C27: a request runs the fallback at most once: the notice, once set, stays
\* until the next request, the limiter is called at most once per request and
\* the caller's bucket grows by at most one, at most three provider calls are
\* made, and a request answered from the database calls neither the limiter
\* nor the provider and leaves the buckets as they were.
PriorCount(k) == IF k \in DOMAIN aiBucket THEN aiBucket[k].count ELSE 0
C27_OneFallback ==
    /\ [](Len(calls) <= 3)
    /\ []((Answered /\ IsJson /\ ~UsedAi) => (~allowed.called /\ calls = <<>> /\ notice = ""))
    /\ [][/\ notice # "" => notice' \in {notice, ""}
          /\ (notice # "" /\ notice' = "") => pc = "done"
          /\ allowed.called => (allowed' = allowed \/ (pc = "done" /\ ~allowed'.called))
          /\ aiBucket' # aiBucket =>
                /\ notice = "" /\ notice' # ""
                /\ ~allowed.called /\ allowed'.called
                /\ DOMAIN aiBucket' = DOMAIN aiBucket \cup {req.rateKey}
                /\ aiBucket'[req.rateKey].count <= PriorCount(req.rateKey) + 1
                /\ \A k \in DOMAIN aiBucket \ {req.rateKey} : aiBucket'[k] = aiBucket[k]
          /\ (pc = "query" /\ pc' = "done" /\ resp'.status = "json"
                /\ ~resp'.body.usedAi) => aiBucket' = aiBucket]_vars

\* A second request of the same caller ended after a zero-result query and
\* three provider calls, having been counted once.
C27_Witness ==
    /\ Answered /\ IsJson /\ UsedAi
    /\ Noticed(NoticeNoneFound)
    /\ Len(calls) = 3
    /\ allowed.called
    /\ allowed.before.count = 1
    /\ aiBucket[req.rateKey].count = 2

(* ------------------------- concurrent requests -------------------------- *)
\* Requests of one caller run concurrently; a request gives way to the others
\* only where it awaits: req.json(), dbConnect(), the query, and the three
\* provider calls.  What runs between two awaits is one step.
MaxRequests == 3
InFlight == flight["body"] + flight["connect"] + flight["query"] + flight["tools"]
              + flight["json_schema"] + flight["json_object"]
Move(f, from, to) == [s \in Stages |->
                         f[s] + (IF s = to THEN 1 ELSE 0) - (IF s = from THEN 1 ELSE 0)]
ThreeFilters == [type |-> JStr("truck"), origin |-> JStr("FR"), destination |-> JStr("DE")]
Route == <<pc, req, notice, calls, replies, resp, query, found, reason, allowed>>
Rest == <<attempts, mail, grants, parsed, validated, filters, effects, shown, loading,
          error, cacheRef, moves>>

\* POST is called and suspends at await req.json().
Arrive ==
    /\ InFlight < MaxRequests
    /\ tally.limited + flight["body"] + flight["connect"] + flight["query"] < MaxCount
    /\ flight' = Move(flight, "none", "body")
    /\ UNCHANGED <<now, ticks, processEnv, ENV, cached, db, aiBucket, tally>>
    /\ UNCHANGED <<Route, Rest>>

\* The body has been read: dbConnect() runs up to its await.
BodyRead ==
    /\ flight["body"] > 0
    /\ flight' = Move(flight, "body", "connect")
    /\ cached' = DbConnectStart(cached, processEnv)
    /\ tally' = [tally EXCEPT !.connects = @ + (IF cached' # cached THEN 1 ELSE 0)]
    /\ UNCHANGED <<now, ticks, processEnv, ENV, db, aiBucket>>
    /\ UNCHANGED <<Route, Rest>>

\* aiFallback up to its first await, for a request leaving stage `from`.
GateFrom(from) ==
    LET g == Guardrails(ENV, ThreeFilters, aiBucket, RateKey(NoHeaders), now)
        called == g.gate \notin {"ai_disabled", "min_filters"}
        passed == g.gate \in {"no_key", "call"}
    IN /\ aiBucket' = g.bucket
       /\ tally' = [tally EXCEPT !.limited = @ + (IF called THEN 1 ELSE 0),
                                 !.passed = @ + (IF passed THEN 1 ELSE 0)]
       /\ flight' = Move(flight, from, IF g.gate = "call" THEN "tools" ELSE "none")

\* await dbConnect() settles for one of the requests waiting for it.
ConnectSettled(up) ==
    /\ flight["connect"] > 0
    /\ cached' = DbConnectEnd(cached, processEnv, up)
    /\ IF DbConnectResolves(cached, processEnv, up)
       THEN /\ flight' = Move(flight, "connect", "query")
            /\ UNCHANGED <<aiBucket, tally>>
       ELSE GateFrom("connect")
    /\ UNCHANGED <<now, ticks, processEnv, ENV, db>>
    /\ UNCHANGED <<Route, Rest>>

\* The query of one request settles: with documents (the request is answered),
\* or with none or an exception (the fallback runs).
QuerySettled(hit) ==
    /\ flight["query"] > 0
    /\ IF hit
       THEN /\ flight' = Move(flight, "query", "none")
            /\ UNCHANGED <<aiBucket, tally>>
       ELSE GateFrom("query")
    /\ UNCHANGED <<now, ticks, processEnv, ENV, cached, db>>
    /\ UNCHANGED <<Route, Rest>>

\* A provider call of one request settles: the strategy returns, or degrades
\* to the next one (the last strategy always returns).
ProviderSettled(stage, next, degrade) ==
    /\ flight[stage] > 0
    /\ flight' = Move(flight, stage, IF degrade THEN next ELSE "none")
    /\ UNCHANGED <<now, ticks, processEnv, ENV, cached, db, aiBucket, tally>>
    /\ UNCHANGED <<Route, Rest>>

ConcurrentDeployments ==
    { Deployment(Env(JStr("true"), JStr("sk-test"), JStr("mongodb://db")), "seeded"),
      Deployment(Env(JStr("true"), Undefined, Undefined), "seeded") }

InitConcurrent ==
    /\ Boot(ConcurrentDeployments)
    /\ attempts = <<>>
    /\ mail = NoMail
    /\ grants = <<>>
    /\ parsed = NoPayload
    /\ validated = NotValidated
    /\ Quiet

NextConcurrent ==
    \/ Advance(1, MaxTicks)
    \/ Arrive
    \/ BodyRead
    \/ \E up \in BOOLEAN : ConnectSettled(up)
    \/ \E hit \in BOOLEAN : QuerySettled(hit)
    \/ \E degrade \in BOOLEAN : ProviderSettled("tools", "json_schema", degrade)
    \/ \E degrade \in BOOLEAN : ProviderSettled("json_schema", "json_object", degrade)
    \/ ProviderSettled("json_object", "none", FALSE)

SpecConcurrent == InitConcurrent /\ [][NextConcurrent]_vars

\* C21: however concurrent requests of one caller interleave at their awaits,
\* no update of the caller's bucket is lost: after n calls of allowAiCall
\* inside one window the stored count is n, and the calls that returned true
\* are the first 20 of them, so at most 20 requests pass the gate.
C21_NoLostUpdate ==
    LET k == RateKey(NoHeaders)
    IN /\ k \in DOMAIN aiBucket <=> tally.limited > 0
       /\ (k \in DOMAIN aiBucket /\ now - aiBucket[k].since <= aiWindowMs) =>
              aiBucket[k].count = tally.limited
       /\ tally.passed = Min(tally.limited, aiMaxCalls)
       /\ tally.passed <= aiMaxCalls

\* More than 20 requests have reached the gate in one window, two of them
\* still waiting for the provider while another one was turned away and a
\* third waits for the database.
C21_Witness ==
    /\ RateKey(NoHeaders) \in DOMAIN aiBucket
    /\ tally.limited > aiMaxCalls
    /\ tally.passed = aiMaxCalls
    /\ aiBucket[RateKey(NoHeaders)].count = tally.limited
    /\ now - aiBucket[RateKey(NoHeaders)].since <= aiWindowMs
    /\ flight["tools"] + flight["json_schema"] + flight["json_object"] >= 2
    /\ flight["body"] + flight["connect"] + flight["query"] >= 1

\* C28: a process starts at most one connection attempt, whatever the number
\* and interleaving of the callers of dbConnect: an attempt is started only
\* when there is neither a connection nor a promise; callers that find the
\* promise pending get what it settles to; a cached connection is never
\* replaced; and once the attempt has failed the cache stays as it is and no
\* later caller gets through to the query.
C28_OneAttempt ==
    /\ [](tally.connects <= 1)
    /\ [](cached.conn => cached.promise = "resolved")
    /\ [](flight["query"] > 0 => cached.conn)
    /\ [][/\ tally'.connects > tally.connects =>
                /\ ~cached.conn /\ cached.promise = "none"
                /\ cached'.promise = "pending"
          /\ cached.promise = "pending" => cached'.promise \in {"pending", "resolved", "rejected"}
          /\ cached.conn => cached' = cached
          /\ cached.promise = "rejected" => (cached' = cached /\ flight'["query"] = 0)]_vars

\* The one attempt has failed: two callers have been refused and a third,
\* which arrived later, is awaiting the same promise.
C28_Witness ==
    /\ tally.connects = 1
    /\ cached.promise = "rejected"
    /\ ~cached.conn
    /\ tally.limited >= 2
    /\ flight["connect"] >= 1

(* ----------------------------- the search page -------------------------- *)
\* const key = `${selectedType}|${origin}|${destination}|${showVerifiedOnly}`
Key(f) ==
    f.selectedType \o "|" \o f.origin \o "|" \o f.destination \o "|"
        \o (IF f.showVerifiedOnly THEN "true" ELSE "false")

\* What the user can set: a type, the verified-only box, or everything back
\* to the start (resetFilters).
MaxMoves == 3
Setters ==
    { [field |-> "selectedType", value |-> "truck"],
      [field |-> "selectedType", value |-> ""],
      [field |-> "showVerifiedOnly", value |-> TRUE],
      [field |-> "showVerifiedOnly", value |-> FALSE] }
SetFilter(f, s) == [f EXCEPT ![s.field] = s.value]
FilterChanges == {[kind |-> "set", to |-> s] : s \in Setters} \cup {[kind |-> "reset"]}
Changed(f, c) == IF c.kind = "reset" THEN NoFilters ELSE SetFilter(f, c.to)

\* One run of the effect: the key and filters of its render, its `aborted`
\* flag, where it stands (its timer pending, its fetch awaited, finished) and
\* what its fetch came to.
Effect(f) == [key |-> Key(f), filters |-> f, aborted |-> FALSE, at |-> "timer", got |-> "none"]

\* The cleanup of an effect: aborted = true; controller.abort(); clearTimeout(t).
Cleanup(e) == [e EXCEPT !.aborted = TRUE, !.at = IF @ = "timer" THEN "done" ELSE @]

\* What the server may answer to the request made under key k; every item
\* names the request it answers.
Hit(k, verified) == [id |-> "c", from |-> k, verified |-> verified]
Answers(k) ==
    { [carriers |-> <<Hit(k, TRUE), Hit(k, FALSE)>>, usedAi |-> FALSE],
      [carriers |-> <<>>, suggestions |-> <<Hit(k, FALSE)>>, usedAi |-> TRUE,
       notice |-> NoticeNoneFound],
      [message |-> "Internal Server Error"] }
Outcomes == {[kind |-> "fail"]} \cup {[kind |-> "data", pick |-> i] : i \in 1..3}
AnswerOf(k, o) ==
    CHOOSE d \in Answers(k) :
        CASE o.pick = 1 -> "carriers" \in DOMAIN d /\ d.carriers # <<>>
          [] o.pick = 2 -> "suggestions" \in DOMAIN d
          [] OTHER -> "carriers" \notin DOMAIN d

\* What run() makes of the response data under the filters f of its render.
CacheEntry(data, f) ==
    LET carriers == IF "carriers" \in DOMAIN data THEN data.carriers ELSE <<>>
        suggestions == IF "suggestions" \in DOMAIN data THEN data.suggestions ELSE <<>>
        list == IF Len(carriers) > 0 THEN carriers ELSE suggestions
        usedAiResponse == Len(carriers) = 0
        info == IF usedAiResponse
                THEN IF "notice" \in DOMAIN data /\ data.notice # ""
                     THEN data.notice ELSE "Unverified AI suggestions."
                ELSE ""
        filtered == IF f.showVerifiedOnly /\ ~usedAiResponse
                    THEN SelectSeq(list, LAMBDA c : c.verified) ELSE list
    IN [results |-> filtered, usedAi |-> usedAiResponse, notice |-> info]

Backend == <<now, ticks, processEnv, ENV, cached, db, aiBucket, pc, req, notice, calls,
             replies, resp, query, found, reason, allowed, attempts, mail, grants, parsed,
             validated, flight, tally>>

\* A filter changes, the key with it: the current effect is cleaned up and
\* the effect of the new render sets its timer.
Change(c) ==
    /\ moves < MaxMoves
    /\ Changed(filters, c) # filters
    /\ filters' = Changed(filters, c)
    /\ effects' = Append([i \in 1..Len(effects) |->
                             IF i = Len(effects) THEN Cleanup(effects[i]) ELSE effects[i]],
                         Effect(filters'))
    /\ moves' = moves + 1
    /\ UNCHANGED <<shown, loading, error, cacheRef>>
    /\ UNCHANGED Backend

\* The timer of effect e fires: run() up to its await.
Fire(e) ==
    /\ e \in DOMAIN effects
    /\ effects[e].at = "timer"
    /\ error' = ""
    /\ IF effects[e].key \in DOMAIN cacheRef
       THEN /\ shown' = cacheRef[effects[e].key]
            /\ effects' = [effects EXCEPT ![e].at = "done"]
            /\ UNCHANGED loading
       ELSE /\ loading' = TRUE
            /\ effects' = [effects EXCEPT ![e].at = "fetch"]
            /\ UNCHANGED shown
    /\ UNCHANGED <<filters, cacheRef, moves>>
    /\ UNCHANGED Backend

\* Faulty variant of Settle: the `if (aborted) return` after the awaits is
\* missing.
Settle_NoAbortCheck(e, o) ==
    /\ e \in DOMAIN effects
    /\ effects[e].at = "fetch"
    /\ effects' = [effects EXCEPT ![e].at = "done", ![e].got = o.kind]
    /\ IF o.kind = "data"
       THEN LET entry == CacheEntry(AnswerOf(effects[e].key, o), effects[e].filters)
            IN /\ shown' = entry
               /\ cacheRef' = [k \in DOMAIN cacheRef \cup {effects[e].key} |->
                                  IF k = effects[e].key THEN entry ELSE cacheRef[k]]
               /\ loading' = IF effects[e].aborted THEN loading ELSE FALSE
               /\ UNCHANGED error
       ELSE /\ IF effects[e].aborted
               THEN UNCHANGED <<error, loading>>
               ELSE /\ error' = "Could not load results. Please try again."
                    /\ loading' = FALSE
            /\ UNCHANGED <<shown, cacheRef>>
    /\ UNCHANGED <<filters, moves>>
    /\ UNCHANGED Backend

\* The awaits of effect e settle, with the response data or with a rejection
\* (a network error, or the abort): the rest of run(), its catch and finally.
Settle(e, o) ==
    /\ e \in DOMAIN effects
    /\ effects[e].at = "fetch"
    /\ effects' = [effects EXCEPT ![e].at = "done", ![e].got = o.kind]
    /\ IF effects[e].aborted
       THEN UNCHANGED <<shown, cacheRef, loading, error>>
       ELSE IF o.kind = "data"
       THEN LET entry == CacheEntry(AnswerOf(effects[e].key, o), effects[e].filters)
            IN /\ shown' = entry
               /\ cacheRef' = [k \in DOMAIN cacheRef \cup {effects[e].key} |->
                                  IF k = effects[e].key THEN entry ELSE cacheRef[k]]
               /\ loading' = FALSE
               /\ UNCHANGED error
       ELSE /\ error' = "Could not load results. Please try again."
            /\ loading' = FALSE
            /\ UNCHANGED <<shown, cacheRef>>
    /\ UNCHANGED <<filters, moves>>
    /\ UNCHANGED Backend

\* The page is mounted: the effect of the first render has set its timer.
InitPage ==
    /\ Boot({Deployment(Env(JStr("true"), JStr("sk-test"), JStr("mongodb://db")), "seeded")})
    /\ attempts = <<>>
    /\ mail = NoMail
    /\ grants = <<>>
    /\ parsed = NoPayload
    /\ validated = NotValidated
    /\ flight = NoFlight
    /\ tally = NoTally
    /\ filters = NoFilters
    /\ effects = <<Effect(NoFilters)>>
    /\ shown = NothingShown
    /\ loading = FALSE
    /\ error = ""
    /\ cacheRef = <<>>
    /\ moves = 0

Runs == 1..(MaxMoves + 1)
NextPage ==
    \/ \E c \in FilterChanges : Change(c)
    \/ \E e \in Runs : Fire(e)
    \/ \E e \in Runs, o \in Outcomes : Settle(e, o)

SpecPage == InitPage /\ [][NextPage]_vars

\* A timer that is set fires, and a request that is awaited settles.
SpecPageFair ==
    /\ SpecPage
    /\ WF_vars(\E e \in Runs : Fire(e))
    /\ WF_vars(\E e \in Runs, o \in Outcomes : Settle(e, o))

(* ---------------------- claims on the search page ----------------------- *)
ProducedFor(entry, k) == \A i \in 1..Len(entry.results) : entry.results[i].from = k
Started(e) ==
    /\ e \in DOMAIN effects'
    /\ effects'[e].at = "fetch"
    /\ (e \notin DOMAIN effects \/ effects[e].at # "fetch")

\* C29: a response to a request whose key is no longer the current key
\* changes nothing: whatever step changes the displayed results, usedAi or
\* notice, or the cache, shows or stores what belongs to the current key, and
\* stores it under that key only.  Every cache entry is the answer to the
\* request made under its key, and no request is made for a cached key: its
\* entry is displayed instead.
C29_StaleDiscarded ==
    /\ [](\A k \in DOMAIN cacheRef : ProducedFor(cacheRef[k], k))
    /\ [][/\ shown' # shown => (filters' = filters /\ ProducedFor(shown', Key(filters)))
          /\ cacheRef' # cacheRef =>
                /\ filters' = filters
                /\ DOMAIN cacheRef' = DOMAIN cacheRef \cup {Key(filters)}
                /\ \A k \in DOMAIN cacheRef \ {Key(filters)} : cacheRef'[k] = cacheRef[k]
                /\ shown' = cacheRef'[Key(filters)]
          /\ \A e \in Runs : Started(e) => effects[e].key \notin DOMAIN cacheRef
          /\ \A e \in Runs :
                (e \in DOMAIN effects /\ effects[e].at = "timer" /\ effects'[e].at = "done"
                    /\ filters' = filters) =>
                    (effects[e].key \in DOMAIN cacheRef /\ shown' = cacheRef[effects[e].key])
         ]_vars

\* The response to an abandoned request has arrived while the results of the
\* current key, a different one, were displayed and cached; nothing is cached
\* under the abandoned key.
C29_Witness ==
    \E e \in DOMAIN effects :
        /\ effects[e].aborted
        /\ effects[e].got = "data"
        /\ effects[e].key # Key(filters)
        /\ effects[e].key \notin DOMAIN cacheRef
        /\ Key(filters) \in DOMAIN cacheRef
        /\ shown = cacheRef[Key(filters)]
        /\ shown.results # <<>>

\* C30 as stated: once the user has stopped changing filters the loading flag
\* eventually becomes false and stays false.
C30_LoadingSettles == <>[](~loading)

=============================================================================
